---- MODULE Spec2Model ----
(***************************************************************************)
(* Verification model of two subsystems of the map renderer:               *)
(*                                                                         *)
(*   - the pooled background-worker dispatcher (js/pooled_worker):         *)
(*     a fixed pool of real contexts, logical workers bound to them        *)
(*     round-robin, and one message router per side;                       *)
(*   - the Camera animation state machine (src/ui/camera.js).              *)
(*                                                                         *)
(* Each subsystem has its own specification (SpecPool, SpecCamera); the    *)
(* variables of the other subsystem stay at their initial values.          *)
(* SpecBearing calls the bearing normalization of the Camera on its own.   *)
(***************************************************************************)
EXTENDS Integers, Sequences, FiniteSets, TLC

VARIABLES
    \* ---- worker pool, main side ----
    workerCount,            \* mapboxgl.workerCount, the configured count
    contexts,               \* real context -> its 'message' listener count
    nativeWorkers,          \* the pool array: index -> real context
    nextNativeWorkerIndex,  \* the rotation cursor
    pooledWorkers,          \* main registry: logical id -> handle
    inbox,                  \* per context: messages posted to it, FIFO
    outbox,                 \* per context: messages it posted, FIFO
    \* ---- worker pool, inside the real contexts ----
    workerPooledWorkers,    \* per context: logical id -> local handle
    uncaught,               \* exceptions that escaped a 'message' listener,
                            \* counted per side
    posted                  \* job messages posted so far, both directions

poolVars == <<workerCount, contexts, nativeWorkers, nextNativeWorkerIndex, pooledWorkers,
              inbox, outbox, workerPooledWorkers, uncaught, posted>>

\* ---- Camera ----
VARIABLES
    transform,   \* tr.zoom, tr.bearing, tr.pitch, tr.center (its longitude),
                 \* tr.minZoom, tr.maxZoom, tr.renderWorldCopies, tr.lngRange
    camera,      \* moving, zooming, rotating, pitching, _abortFn, _finishFn,
                 \* _onEaseEnd
    sessions,    \* the closures _ease was given, by session number, each
                 \* with the state of its browser.timed timer
    timeouts,    \* the sessions whose delayed end events are pending
    listeners,   \* event type -> what the registered listener will call
    trace,       \* what the last step fired and called, in order
    threw,       \* an exception has escaped a call, a frame or a timeout
    ran,         \* what the browser ran in the last step: a call of the
                 \* page, the frame of a timer or a timeout
    warnings     \* util.warnOnce: the messages it has seen, and what it
                 \* has written to the console

cameraVars ==
    <<transform, camera, sessions, timeouts, listeners, trace, threw, ran,
      warnings>>

\* ---- Camera._normalizeBearing, called on its own ----
VARIABLES
    bearings     \* the arguments of a call of _normalizeBearing, and the
                 \* value it has returned

bearingVars == <<bearings>>

\* ---- LngLat: the constructor and convert, called on their own ----
VARIABLES
    lngLat       \* the call, its arguments, and what it returned or threw

lngLatVars == <<lngLat>>

\* ---- Evented: an object with on, off, once and fire, on its own ----
VARIABLES
    evented      \* _listeners and _oneTimeListeners, with the listeners the
                 \* page has made and how often each was called

eventedVars == <<evented>>

\* ---- flyTo: the path of one flight, on its own ----
VARIABLES
    flight       \* what flyTo computes the path from, and the visible spans
                 \* w(s) computed along it so far

flightVars == <<flight>>

\* ---- Map: the render loop, on its own ----
VARIABLES
    render       \* the dirty flags and _frameId of the Map, and the frames the
                 \* browser has been asked for and has not run or cancelled

renderVars == <<render>>

\* The variables of the functions that are called on their own.
callVars == <<bearingVars, lngLatVars, eventedVars, flightVars, renderVars>>

vars == <<poolVars, cameraVars, callVars>>

(***************************************************************************)
(* Bounds of the model.                                                    *)
(***************************************************************************)
MaxAlloc == 3        \* logical workers allocated in one run
MaxMessages == 3     \* job messages posted in one run, both directions

(***************************************************************************)
(* Worker pool: values.                                                    *)
(***************************************************************************)
\* `message.pooledWorkerId == null`: the message carries no logical id.
NoId == -1

\* workerCount || 3
DefaultWorkerCount == 3

\* What the application may have configured (0 reads as "not set").
WorkerCounts == {0, 1, 2}

Options == {"chicken"}
SendTypes == {"marco"}
WorkerSendTypes == {"polo"}

\* The job bodies given to createPooledWorker: one that answers with send()
\* only, and one that, when it is run, also calls self.postMessage itself
\* with the logical id after its own.
Bodies == {"marco_polo_worker", "stray_worker"}

\* The number of real contexts createNativeWorkers makes.
PoolSize == IF workerCount = 0 THEN DefaultWorkerCount ELSE workerCount

\* A JavaScript array as a function on 0 .. length-1.
Length(a) == Cardinality(DOMAIN a)
EmptyArray == [k \in {} |-> 0]

\* Evented.fire.call(handle, type, data): the handle keeps the record of
\* what was fired on it.
Fire(handle, type, data) ==
    [handle EXCEPT !.fired = Append(@, [type |-> type, data |-> data])]

\* The payload of the n-th message a handle sends: it names its sender, so
\* that a delivery to the wrong handle shows. `raw` marks a message posted
\* without send(), `early` one sent before the context has created the
\* counterpart handle.
Payload(id, n, raw, early) ==
    [id |-> id, n |-> n, raw |-> raw, early |-> early]

\* The job message send() builds.
MutJobMessage(pooledWorkerId, type, data) ==
    [pooledWorkerId |-> Length(pooledWorkers) - 1, type |-> type, data |-> data]

JobMessage(pooledWorkerId, type, data) ==
    [pooledWorkerId |-> pooledWorkerId, type |-> type, data |-> data]

\* The control message createPooledWorker builds.
ControlMessage(pooledWorkerId, body, options) ==
    [pooledWorkerId |-> NoId,
     type |-> "createPooledWorker",
     data |-> [pooledWorkerId |-> pooledWorkerId,
               bodyURL |-> body,
               options |-> options]]

\* postMessage: the transport keeps the order of what one side posts.
PostMessage(queue, message) == Append(queue, message)

(***************************************************************************)
(* Worker pool, main side.                                                 *)
(***************************************************************************)
\* `if (!nativeWorkers.length) createNativeWorkers()`
MutNeedNativeWorkers(workers) == TRUE

NeedNativeWorkers(workers) == Length(workers) = 0

\* createNativeWorkers: workerCount contexts, each given one 'message'
\* listener. `made` is the number of contexts that exist already.
createNativeWorkers(made) == [i \in 0 .. PoolSize - 1 |-> made + i]

\* nativeWorkers[i].addEventListener('message', ...): one per new context.
AddEventListener(made) ==
    [c \in 0 .. made + PoolSize - 1 |->
        IF c < made THEN contexts[c] ELSE [listeners |-> 1]]

\* (nextNativeWorkerIndex + 1) % nativeWorkers.length
MutNextIndex(index, length) == index

NextIndex(index, length) == (index + 1) % length

\* The main-side handle: its send() closes over nativeWorker and
\* pooledWorkerId.
NewPooledWorker(nativeWorker, options) ==
    [nativeWorker |-> nativeWorker, options |-> options,
     fired |-> <<>>, sent |-> <<>>]

\* The context a handle's send() posts to.
MutSendTarget(pooledWorkerId) == nativeWorkers[nextNativeWorkerIndex]

SendTarget(pooledWorkerId) == pooledWorkers[pooledWorkerId].nativeWorker

\* The handle the main-side router fires a message on.
MutRouted(message) == 0

Routed(message) == message.pooledWorkerId

\* `var pooledWorkerId = pooledWorkers.length`
MutNewPooledWorkerId ==
    IF Length(pooledWorkers) = 0 THEN 0 ELSE Length(pooledWorkers) - 1

NewPooledWorkerId == Length(pooledWorkers)

\* `a[k] = v` on a JavaScript array with k <= a.length.
Assign(a, k, v) == [j \in DOMAIN a \cup {k} |-> IF j = k THEN v ELSE a[j]]

\* createPooledWorker(body, options)
CreatePooledWorker(body, options) ==
    /\ Length(pooledWorkers) < MaxAlloc
    /\ body = "stray_worker" => posted < MaxMessages
    /\ posted' = IF body = "stray_worker" THEN posted + 1 ELSE posted
    /\ LET pooledWorkerId == NewPooledWorkerId
           create == NeedNativeWorkers(nativeWorkers)
           made == Length(contexts)
           workers == IF create THEN createNativeWorkers(made)
                      ELSE nativeWorkers
           nativeWorker == workers[nextNativeWorkerIndex]
           queues == IF create
                     THEN [c \in 0 .. made + PoolSize - 1 |->
                             IF c < made THEN inbox[c] ELSE <<>>]
                     ELSE inbox
       IN /\ nativeWorkers' = workers
          /\ contexts' = IF create THEN AddEventListener(made) ELSE contexts
          /\ nextNativeWorkerIndex' =
                 NextIndex(nextNativeWorkerIndex, Length(workers))
          /\ inbox' = [queues EXCEPT ![nativeWorker] =
                 PostMessage(@, ControlMessage(pooledWorkerId, body, options))]
          /\ outbox' = IF create
                        THEN [c \in 0 .. made + PoolSize - 1 |->
                                IF c < made THEN outbox[c] ELSE <<>>]
                        ELSE outbox
          /\ workerPooledWorkers' =
                 IF create
                 THEN [c \in 0 .. made + PoolSize - 1 |->
                         IF c < made THEN workerPooledWorkers[c]
                         ELSE EmptyArray]
                 ELSE workerPooledWorkers
          /\ pooledWorkers' =
                 Assign(pooledWorkers, pooledWorkerId,
                        NewPooledWorker(nativeWorker, options))
    /\ UNCHANGED <<workerCount, uncaught>>
    /\ UNCHANGED <<cameraVars, callVars>>

\* The raw entries of a sequence of messages or of fired events.
Raw(seq) == SelectSeq(seq, LAMBDA m : m.data.raw)
NotRaw(seq) == SelectSeq(seq, LAMBDA m : ~m.data.raw)

\* pooledWorker.send(type, data) on the main side.
Send(pooledWorkerId, type) ==
    /\ pooledWorkerId \in DOMAIN pooledWorkers
    /\ posted < MaxMessages
    /\ posted' = posted + 1
    /\ LET nativeWorker == pooledWorkers[pooledWorkerId].nativeWorker
           data == Payload(pooledWorkerId,
                      Len(pooledWorkers[pooledWorkerId].sent) + 1, FALSE,
                      pooledWorkerId \notin DOMAIN workerPooledWorkers[nativeWorker])
           message == JobMessage(pooledWorkerId, type, data)
       IN /\ inbox' = [inbox EXCEPT ![SendTarget(pooledWorkerId)] =
                          PostMessage(@, message)]
          /\ pooledWorkers' = [pooledWorkers EXCEPT
                 ![pooledWorkerId].sent = Append(@, [type |-> type, data |-> data])]
    /\ UNCHANGED <<workerCount, contexts, nativeWorkers,
                   nextNativeWorkerIndex, outbox, workerPooledWorkers,
                   uncaught>>
    /\ UNCHANGED <<cameraVars, callVars>>

RECURSIVE Times(_, _, _, _)
\* One 'message' event runs every listener attached to the context.
Times(n, handle, type, data) ==
    IF n = 0 THEN handle ELSE Times(n - 1, Fire(handle, type, data), type, data)

\* The 'message' listener createNativeWorkers attaches to context c.
NativeWorkerOnMessage(c) ==
    /\ c \in DOMAIN outbox
    /\ outbox[c] # <<>>
    /\ LET message == Head(outbox[c])
           id == Routed(message)
       IN /\ outbox' = [outbox EXCEPT ![c] = Tail(@)]
          /\ IF id \in DOMAIN pooledWorkers
             THEN /\ pooledWorkers' = [pooledWorkers EXCEPT ![id] =
                         Times(contexts[c].listeners, @, message.type,
                               message.data)]
                  /\ UNCHANGED uncaught
             ELSE \* Evented.fire.call(undefined, ...): a TypeError
                  /\ uncaught' = [uncaught EXCEPT !.main = @ + 1]
                  /\ UNCHANGED pooledWorkers
    /\ UNCHANGED <<workerCount, contexts, nativeWorkers,
                   nextNativeWorkerIndex, inbox, workerPooledWorkers, posted>>
    /\ UNCHANGED <<cameraVars, callVars>>

(***************************************************************************)
(* Worker pool, inside a real context (worker_index.js).                   *)
(***************************************************************************)
\* The argument of a job body that has not been called.
NoOptions == "undefined"

\* The local handle, as the object literal makes it: `options` and
\* `bodyCalls` record the calls of the job body with it as receiver.
NewWorkerPooledWorker ==
    [options |-> NoOptions, bodyCalls |-> 0, fired |-> <<>>, sent |-> <<>>]

\* self.exports.call(pooledWorker, data.options)
MutExportsCall(pooledWorker, options) == pooledWorker

ExportsCall(pooledWorker, options) ==
    [pooledWorker EXCEPT !.options = options, !.bodyCalls = @ + 1]

\* createPooledWorker(data) inside the context: registers the handle under
\* data.pooledWorkerId, then imports and calls the job body.
WorkerCreatePooledWorker(registry, data) ==
    [id \in DOMAIN registry \cup {data.pooledWorkerId} |->
        IF id = data.pooledWorkerId
        THEN ExportsCall(NewWorkerPooledWorker, data.options)
        ELSE registry[id]]

\* self.exports.call(pooledWorker, data.options): the job body is run; what
\* it posts with self.postMessage is added to the queue of its context.
JobBody(queue, data) ==
    IF data.bodyURL = "stray_worker"
    THEN PostMessage(queue,
             JobMessage(data.pooledWorkerId + 1, "polo",
                        Payload(data.pooledWorkerId + 1, 0, TRUE, FALSE)))
    ELSE queue

\* `message.pooledWorkerId == null`, and the test that is false for id 0 too.
MutCarriesNoId(message) == message.pooledWorkerId \in {NoId, 0}

CarriesNoId(message) == message.pooledWorkerId = NoId

\* The 'message' listener of context c.
WorkerOnMessage(c) ==
    /\ c \in DOMAIN inbox
    /\ inbox[c] # <<>>
    /\ LET message == Head(inbox[c])
           registry == workerPooledWorkers[c]
       IN /\ inbox' = [inbox EXCEPT ![c] = Tail(@)]
          /\ IF CarriesNoId(message)
             THEN /\ workerPooledWorkers' =
                        IF message.type = "createPooledWorker"
                        THEN [workerPooledWorkers EXCEPT ![c] =
                                WorkerCreatePooledWorker(registry, message.data)]
                        ELSE workerPooledWorkers
                  /\ outbox' =
                        IF message.type = "createPooledWorker"
                        THEN [outbox EXCEPT ![c] = JobBody(@, message.data)]
                        ELSE outbox
                  /\ UNCHANGED uncaught
             ELSE IF message.pooledWorkerId \in DOMAIN registry
             THEN /\ workerPooledWorkers' = [workerPooledWorkers EXCEPT
                        ![c][message.pooledWorkerId] =
                            Fire(@, message.type, message.data)]
                  /\ UNCHANGED <<uncaught, outbox>>
             ELSE \* Evented.fire.call(undefined, ...): a TypeError
                  /\ uncaught' = [uncaught EXCEPT !.worker = @ + 1]
                  /\ UNCHANGED <<workerPooledWorkers, outbox>>
    /\ UNCHANGED <<workerCount, contexts, nativeWorkers,
                   nextNativeWorkerIndex, pooledWorkers, posted>>
    /\ UNCHANGED <<cameraVars, callVars>>

\* pooledWorker.send(type, data) inside context c: self.postMessage.
WorkerSend(c, pooledWorkerId, type) ==
    /\ c \in DOMAIN workerPooledWorkers
    /\ pooledWorkerId \in DOMAIN workerPooledWorkers[c]
    /\ posted < MaxMessages
    /\ posted' = posted + 1
    /\ LET data == Payload(pooledWorkerId,
                     Len(workerPooledWorkers[c][pooledWorkerId].sent) + 1,
                     FALSE, FALSE)
       IN /\ outbox' = [outbox EXCEPT ![c] =
                 PostMessage(@, JobMessage(pooledWorkerId, type, data))]
          /\ workerPooledWorkers' = [workerPooledWorkers EXCEPT
                 ![c][pooledWorkerId].sent =
                     Append(@, [type |-> type, data |-> data])]
    /\ UNCHANGED <<workerCount, contexts, nativeWorkers,
                   nextNativeWorkerIndex, pooledWorkers, inbox, uncaught>>
    /\ UNCHANGED <<cameraVars, callVars>>

PoolInit ==
    /\ workerCount \in WorkerCounts
    /\ contexts = EmptyArray
    /\ nativeWorkers = EmptyArray
    /\ nextNativeWorkerIndex = 0
    /\ pooledWorkers = EmptyArray
    /\ inbox = EmptyArray
    /\ outbox = EmptyArray
    /\ workerPooledWorkers = EmptyArray
    /\ uncaught = [main |-> 0, worker |-> 0]
    /\ posted = 0

PoolNext ==
    \/ \E body \in Bodies, options \in Options :
          CreatePooledWorker(body, options)
    \/ \E id \in 0 .. MaxAlloc - 1, type \in SendTypes : Send(id, type)
    \/ \E c \in DOMAIN outbox : NativeWorkerOnMessage(c)
    \/ \E c \in DOMAIN inbox : WorkerOnMessage(c)
    \/ \E c \in DOMAIN inbox, id \in 0 .. MaxAlloc - 1, type \in WorkerSendTypes :
          WorkerSend(c, id, type)

\* The 'message' events of a context, whatever their data: with and without
\* a logical id, of the control type and of another, the data those of a
\* control message.
ContextMessages ==
    LET data == [pooledWorkerId |-> MaxAlloc - 1,
                 bodyURL |-> "marco_polo_worker", options |-> "chicken"]
    IN {[pooledWorkerId |-> id, type |-> type, data |-> data] :
           id \in {NoId, 0, MaxAlloc - 1},
           type \in {"marco", "createPooledWorker"}}
       \ {ControlMessage(MaxAlloc - 1, "marco_polo_worker", "chicken")}

\* A message is posted to context c.
Posts(c, message) ==
    /\ c \in DOMAIN inbox
    /\ posted < MaxMessages
    /\ posted' = posted + 1
    /\ inbox' = [inbox EXCEPT ![c] = PostMessage(@, message)]
    /\ UNCHANGED <<workerCount, contexts, nativeWorkers,
                   nextNativeWorkerIndex, pooledWorkers, outbox,
                   workerPooledWorkers, uncaught>>
    /\ UNCHANGED <<cameraVars, callVars>>

ContextNext ==
    \/ \E options \in Options : CreatePooledWorker("marco_polo_worker", options)
    \/ \E c \in DOMAIN inbox, message \in ContextMessages : Posts(c, message)
    \/ \E c \in DOMAIN inbox : WorkerOnMessage(c)

(***************************************************************************)
(* Camera (src/ui/camera.js).                                              *)
(*                                                                         *)
(* A call of the Camera runs to completion, with every listener its events *)
(* invoke, so the operations are operators from one state of the Camera,   *)
(* a record w, to the next. An exception (w.exc) ends every operation on   *)
(* the stack.                                                              *)
(***************************************************************************)
MaxSessions == 2    \* easeTo and flyTo sessions started in one run
MaxListeners == 1   \* listeners registered at one time
MaxFrames == 1      \* frames of one session before its last (t = 1)

\* `delete this._abortFn`, and the null browser.timed returns.
Undefined == 0

\* easeTo's default duration.
DefaultDuration == 500

\* flyTo's computed duration 1000 * S / V of a path of non-zero length: a
\* positive number; browser.timed only tells zero from non-zero.
FlightDuration == 1000

EventTypes == {"movestart", "move", "moveend", "zoomstart", "zoom", "zoomend",
               "rotate", "pitchstart", "pitch", "pitchend"}

\* The zoom range of a map made with the default options, and the pitch
\* range of the Transform.
MinZoom == 0
MaxZoom == 22
MaxPitch == 60

\* The Transform keeps its zoom within [minZoom, maxZoom] and its pitch
\* within [0, 60], whatever it is assigned.
clamp(n, min, max) == IF n < min THEN min ELSE IF n > max THEN max ELSE n

\* The camera targets the calls are given: `has` is the set of keys present
\* in options.
Target(has, zoom, bearing, pitch, center) ==
    [has |-> has, zoom |-> zoom, bearing |-> bearing, pitch |-> pitch,
     center |-> center]

Nowhere == Target({}, 0, 0, 0, 0)

Zoomed == Target({"zoom"}, MaxZoom, 0, 0, 0)

Turned == Target({"zoom", "pitch", "bearing"}, MaxZoom, 90, 30, 0)

Moved == Target({"center"}, 0, 0, 0, 10)

Targets == {Nowhere, Zoomed, Turned, Moved}

\* CameraOptions with AnimationOptions.
WithAnimation(target, has, duration, animate, noMoveStart, delayEndEvents) ==
    [has |-> target.has \cup has, zoom |-> target.zoom,
     bearing |-> target.bearing, pitch |-> target.pitch,
     center |-> target.center, duration |-> duration, animate |-> animate,
     noMoveStart |-> noMoveStart, delayEndEvents |-> delayEndEvents]

NoAnimation(target) == WithAnimation(target, {}, 0, TRUE, FALSE, 0)

\* keyboard.js eases with delayEndEvents: 500.
KeyboardDelay == 500

EaseOptions ==
    { WithAnimation(Turned, has, 0, TRUE, n, d) :
        has \in {{}, {"duration"}}, n \in BOOLEAN, d \in {0, KeyboardDelay} }
    \cup { WithAnimation(Nowhere, {}, 0, TRUE, FALSE, 0),
           WithAnimation(Zoomed, {}, 0, TRUE, FALSE, 0),
           WithAnimation(Zoomed, {}, 0, FALSE, FALSE, 0) }

FlyOptions ==
    { WithAnimation(t, {}, 0, TRUE, FALSE, 0) : t \in Targets \ {Turned, Moved} }
    \cup { WithAnimation(Zoomed, {"duration"}, 0, TRUE, FALSE, 0) }

\* What map.setZoom(getZoom() + 1) asks of a map at its maximal zoom.
Beyond == Target({"zoom"}, MaxZoom + 1, 0, 0, 0)

JumpTargets == {Turned, Beyond}

Call(op, options) == [op |-> op, options |-> options]

NoCall == Call("none", NoAnimation(Nowhere))

\* The sessions whose timer will run another frame.
Live(w) == {s \in 1 .. Len(w.sessions) : w.sessions[s].timer = "live"}

\* An entry of the trace, with the Camera as it is at that moment.
Mark(w, kind, e, sid, call) ==
    [w EXCEPT !.trace = Append(@,
        [kind |-> kind, e |-> e, sid |-> sid, call |-> call,
         options |-> NoCall.options,
         abortFn |-> w.cam.abortFn, finishFn |-> w.cam.finishFn,
         delayed |-> /\ w.cam.finishFn # Undefined
                     /\ w.sessions[w.cam.finishFn].delayEndEvents > 0,
         zooming |-> w.cam.zooming, rotating |-> w.cam.rotating,
         pitching |-> w.cam.pitching,
         live |-> Live(w)])]

\* The entry of a call, with the options it was given.
MarkCall(w, call) ==
    LET Noted(w1) == [w1 EXCEPT !.trace[Len(w1.trace)].options = call.options]
    IN Noted(Mark(w, "call", call.op, 0, 0))

\* util.wrap(n, min, max)
wrap(n, min, max) ==
    LET d == max - min
        v == ((((n - min) % d) + d) % d) + min
    IN IF v = min THEN max ELSE v

Abs(n) == IF n < 0 THEN -n ELSE n

\* Wrapped into (-180, 180] and left there.
Mut_normalizeBearing(bearing, currentBearing) == wrap(bearing, -180, 180)

_normalizeBearing(bearing, currentBearing) ==
    LET b0 == wrap(bearing, -180, 180)
        diff == Abs(b0 - currentBearing)
        b1 == IF Abs(b0 - 360 - currentBearing) < diff THEN b0 - 360 ELSE b0
    IN IF Abs(b1 + 360 - currentBearing) < diff THEN b1 + 360 ELSE b1

\* interpolate(a, b, t)
interpolate(a, b, t) == a * (1 - t) + b * t

\* options.easing: util.ease by default; every easing has easing(0) = 0 and
\* easing(1) = 1.
easing(t) == t

RECURSIVE fire(_, _, _), fireEach(_, _, _), invoke(_, _), stop(_), _finishEase(_),
          finish(_, _), _easeToEnd(_, _), jumpTo(_, _), easeTo(_, _, _),
          flyTo(_, _, _), _ease(_, _), frame(_, _, _), timed(_, _, _),
          setZoom(_, _), setMinZoom(_, _), setMaxZoom(_, _), setMaxBounds(_, _),
          fitBounds(_, _, _)

\* Evented.fire(type, data) on the Camera: the event is recorded and the
\* listener registered for the type is called. The listener acts once: it
\* removes itself (off) and then makes its call.
fire(w, type, sid) ==
    IF w.exc THEN w
    ELSE LET w1 == Mark(w, "event", type, sid, 0)
             listener == w.listeners[type]
         IN IF listener = NoCall THEN w1
            ELSE invoke([w1 EXCEPT !.listeners[type] = NoCall], listener)

\* Statements `if (this.<when>) this.fire(type)` one after the other: each
\* reads the flag as the listeners of the events before it have left it.
Always(type) == [when |-> "always", type |-> type]

When(flag, type) == [when |-> flag, type |-> type]

fireEach(w, events, sid) ==
    IF w.exc \/ events = <<>> THEN w
    ELSE LET ev == Head(events)
         IN fireEach(IF ev.when = "always" \/ w.cam[ev.when]
                     THEN fire(w, ev.type, sid) ELSE w,
                     Tail(events), sid)

\* A call of the public API, by the application or by a listener.
invoke(w, call) ==
    LET at == Len(w.trace) + 1
        Returned(w2) == IF w2.exc THEN w2 ELSE Mark(w2, "return", call.op, 0, at)
        Called(w1) ==
            Returned(CASE call.op = "stop" -> stop(w1)
                       [] call.op = "jumpTo" -> jumpTo(w1, call.options)
                       [] call.op = "easeTo" -> easeTo(w1, call.options, at)
                       [] call.op = "flyTo" -> flyTo(w1, call.options, at)
                       [] call.op = "setZoom" -> setZoom(w1, call.options.zoom)
                       [] call.op = "setMinZoom" -> setMinZoom(w1, call.options)
                       [] call.op = "setMaxZoom" -> setMaxZoom(w1, call.options)
                       [] call.op = "setMaxBounds" ->
                            setMaxBounds(w1, call.options)
                       [] call.op = "fitBounds" ->
                            fitBounds(w1, call.options, at))
    IN IF w.exc THEN w ELSE Called(MarkCall(w, call))

\* The function browser.timed returned for session s: abort = true.
Abort(w, s) ==
    IF w.sessions[s].timer = "live"
    THEN [w EXCEPT !.sessions[s].timer = "aborted"] ELSE w

MutStop(w) == w

stop(w) ==
    IF w.exc THEN w
    ELSE IF w.cam.abortFn # Undefined
         THEN _finishEase(Abort(w, w.cam.abortFn))
         ELSE w

\* _finishEase(): both fields are deleted before finish is called.
Mut_finishEase(w) ==
    IF w.exc THEN w
    ELSE IF w.cam.finishFn = Undefined THEN [w EXCEPT !.exc = TRUE]
    ELSE finish(w, w.cam.finishFn)

_finishEase(w) ==
    IF w.exc THEN w
    ELSE LET fn == w.cam.finishFn
             w1 == [w EXCEPT !.cam.abortFn = Undefined,
                             !.cam.finishFn = Undefined]
         IN IF fn = Undefined
            THEN [w1 EXCEPT !.exc = TRUE]   \* finish.call: a TypeError
            ELSE finish(w1, fn)

\* The finish closure easeTo or flyTo gave to _ease for session s.
finish(w, s) ==
    LET w1 == [w EXCEPT !.sessions[s].finished = @ + 1]
    IN IF w.sessions[s].kind = "easeTo" /\ w.sessions[s].delayEndEvents > 0
       THEN \* this._onEaseEnd = setTimeout(...)
            [w1 EXCEPT !.cam.onEaseEnd = s, !.timeouts = @ \cup {s}]
       ELSE _easeToEnd(w1, s)

_easeToEnd(w, s) ==
    IF w.exc THEN w
    ELSE LET wasZooming == w.cam.zooming
             wasPitching == w.cam.pitching
             w1 == [w EXCEPT !.cam.moving = FALSE, !.cam.zooming = FALSE,
                             !.cam.rotating = FALSE, !.cam.pitching = FALSE]
         IN fireEach(w1,
                     (IF wasZooming THEN <<Always("zoomend")>> ELSE <<>>)
                     \o (IF wasPitching THEN <<Always("pitchend")>> ELSE <<>>)
                     \o <<Always("moveend")>>, s)

_prepareEase(w, s, noMoveStart) ==
    IF w.exc THEN w
    ELSE LET w1 == [w EXCEPT !.cam.moving = TRUE]
         IN fireEach(w1,
                     (IF ~noMoveStart THEN <<Always("movestart")>> ELSE <<>>)
                     \o <<When("zooming", "zoomstart"),
                          When("pitching", "pitchstart")>>, s)

_fireMoveEvents(w, s) ==
    fireEach(w, <<Always("move"), When("zooming", "zoom"),
                  When("rotating", "rotate"), When("pitching", "pitch")>>, s)

\* Transform._constrain(): the center is kept within the longitude range,
\* when the range has bounds.
_constrain(tr) ==
    IF tr.lngRange.bounds = <<>> THEN tr
    ELSE [tr EXCEPT !.center = clamp(@, tr.lngRange.bounds[1],
                                     tr.lngRange.bounds[2])]

\* A value of tr.lngRange: undefined, or an array. An array is truthy,
\* the empty one too.
NoRange == [array |-> FALSE, bounds |-> <<>>]

Range(bounds) == [array |-> TRUE, bounds |-> bounds]

Truthy(lngRange) == lngRange.array

\* _normalizeCenter(center): the longitude nearest to the current one.
_normalizeCenter(w, lng) ==
    LET delta == lng - w.tr.center
    IN IF ~w.tr.renderWorldCopies \/ Truthy(w.tr.lngRange) THEN lng
       ELSE lng + (IF delta > 180 THEN -360 ELSE IF delta < -180 THEN 360 ELSE 0)

\* Values of JavaScript: numbers, NaN, undefined, null and strings, each
\* with the number Number(value) gives where that is one.
Num(n) == [t |-> "number", n |-> n]

NaN == [t |-> "NaN", n |-> 0]

undefined == [t |-> "undefined", n |-> 0]

null == [t |-> "null", n |-> 0]

Digits(n) == [t |-> "digits", n |-> n]

Text == [t |-> "text", n |-> 0]

Array(items) == [t |-> "array", items |-> items]

Object(lng, lat) == [t |-> "object", lng |-> lng, lat |-> lat]

\* Number(value) is NaN.
isNaN(value) == value.t \in {"NaN", "undefined", "text"}

\* Number(value), where it is a number: null gives 0.
Number(value) == value.n

Thrown == [threw |-> TRUE, value |-> <<>>]

Given(value) == [threw |-> FALSE, value |-> <<value>>]

\* The constructor without the check of the latitude.
MutLngLat(lng, lat) ==
    IF isNaN(lng) \/ isNaN(lat) THEN Thrown
    ELSE Given([t |-> "LngLat", lng |-> Number(lng), lat |-> Number(lat)])

\* new LngLat(lng, lat)
LngLat(lng, lat) ==
    IF isNaN(lng) \/ isNaN(lat) THEN Thrown
    ELSE IF Number(lat) > 90 \/ Number(lat) < -90 THEN Thrown
    ELSE Given([t |-> "LngLat", lng |-> Number(lng), lat |-> Number(lat)])

\* LngLat.convert(input)
convert(input) ==
    IF input.t = "LngLat" THEN Given(input)
    ELSE IF input.t = "array" /\ Len(input.items) = 2
    THEN LngLat(input.items[1], input.items[2])
    ELSE IF input.t = "object" THEN LngLat(input.lng, input.lat)
    ELSE Thrown

\* options.center as jumpTo gives it to LngLat.convert: the pair of the
\* longitude and latitude 0 the camera's centers stand for, or the value
\* the page has put there instead.
CenterGiven(options) ==
    IF "input" \in DOMAIN options THEN options.input
    ELSE Array(<<Num(options.center), Num(0)>>)

\* jumpTo that reads every camera property of options, present or not.
Mut_jumpTo(w, options) ==
    LET Stopped(w0) ==
            LET tr == w0.tr
                w1 == [w0 EXCEPT
                         !.tr.zoom = clamp(options.zoom, tr.minZoom, tr.maxZoom),
                         !.tr.center = _constrain([tr EXCEPT !.center =
                                                options.center]).center,
                         !.tr.bearing = options.bearing,
                         !.tr.pitch = clamp(options.pitch, 0, MaxPitch)]
            IN IF w0.exc THEN w0
               ELSE fireEach(w1, <<Always("movestart"), Always("move"),
                                   Always("moveend")>>, 0)
    IN Stopped(stop(w))

\* Camera.jumpTo(options)
jumpTo(w, options) ==
    LET Stopped(w0) ==
            LET tr == w0.tr
                zoomChanged == "zoom" \in options.has /\ tr.zoom # options.zoom
                bearingChanged ==
                    "bearing" \in options.has /\ tr.bearing # options.bearing
                pitchChanged == "pitch" \in options.has /\ tr.pitch # options.pitch
                center == convert(CenterGiven(options))
                zoomed == [w0 EXCEPT
                             !.tr.zoom = IF zoomChanged
                                         THEN clamp(options.zoom, tr.minZoom,
                                                    tr.maxZoom)
                                         ELSE @]
                w1 == [zoomed EXCEPT
                         !.tr.center = IF "center" \in options.has
                                       THEN _constrain([zoomed.tr EXCEPT !.center =
                                                center.value[1].lng]).center
                                       ELSE @,
                         !.tr.bearing = IF bearingChanged THEN options.bearing ELSE @,
                         !.tr.pitch = IF pitchChanged
                                      THEN clamp(options.pitch, 0, MaxPitch)
                                      ELSE @]
            IN IF w0.exc THEN w0
               ELSE IF "center" \in options.has /\ center.threw
               THEN [zoomed EXCEPT !.exc = TRUE]
               ELSE fireEach(w1,
                        <<Always("movestart"), Always("move")>>
                        \o (IF zoomChanged
                            THEN <<Always("zoomstart"), Always("zoom"),
                                   Always("zoomend")>>
                            ELSE <<>>)
                        \o (IF bearingChanged THEN <<Always("rotate")>> ELSE <<>>)
                        \o (IF pitchChanged
                            THEN <<Always("pitchstart"), Always("pitch"),
                                   Always("pitchend")>>
                            ELSE <<>>)
                        \o <<Always("moveend")>>, 0)
    IN Stopped(stop(w))

\* The variables the frame and finish closures of a session close over,
\* with the state of the timer browser.timed runs for it.
Session(kind, w, zoom, bearing, pitch, center, duration, delayEndEvents) ==
    [kind |-> kind,
     startZoom |-> w.tr.zoom, zoom |-> zoom,
     startBearing |-> w.tr.bearing, bearing |-> bearing,
     startPitch |-> w.tr.pitch, pitch |-> pitch,
     startCenter |-> w.tr.center, center |-> center,
     duration |-> duration, delayEndEvents |-> delayEndEvents,
     timer |-> "none", frames |-> 0, finished |-> 0]

easeTo(w, options, call) ==
    LET Prepared(w2, s) ==
            IF w2.exc THEN w2
            ELSE \* clearTimeout(this._onEaseEnd)
                 _ease([w2 EXCEPT !.timeouts = @ \ {w2.cam.onEaseEnd}], s)
        Stopped(w0) ==
            LET tr == w0.tr
                duration == IF ~options.animate THEN 0
                            ELSE IF "duration" \in options.has THEN options.duration
                            ELSE DefaultDuration
                zoom == IF "zoom" \in options.has THEN options.zoom ELSE tr.zoom
                bearing == IF "bearing" \in options.has
                           THEN _normalizeBearing(options.bearing, tr.bearing)
                           ELSE tr.bearing
                pitch == IF "pitch" \in options.has THEN options.pitch ELSE tr.pitch
                center == IF "center" \in options.has
                          THEN _normalizeCenter(w0, options.center) ELSE tr.center
                s == Len(w0.sessions) + 1
                w1 == [w0 EXCEPT
                         !.sessions = Append(@, Session("easeTo", w0, zoom,
                                          bearing, pitch, center, duration,
                                          options.delayEndEvents)),
                         !.cam.zooming = (zoom # tr.zoom),
                         !.cam.rotating = (tr.bearing # bearing),
                         !.cam.pitching = (pitch # tr.pitch)]
            IN IF w0.exc THEN w0
               ELSE Prepared(_prepareEase(Mark(w1, "begin", "easeTo", s, call),
                                          s, options.noMoveStart), s)
    IN Stopped(stop(w))

flyTo(w, options, call) ==
    LET Stopped(w0) ==
            LET tr == w0.tr
                zoom == IF "zoom" \in options.has THEN options.zoom ELSE tr.zoom
                bearing == IF "bearing" \in options.has
                           THEN _normalizeBearing(options.bearing, tr.bearing)
                           ELSE tr.bearing
                pitch == IF "pitch" \in options.has THEN options.pitch ELSE tr.pitch
                center == IF "center" \in options.has
                          THEN _normalizeCenter(w0, options.center) ELSE tr.center
                \* u1: the ground distance; w0 = w1 exactly when the zoom stays
                u1 == Abs(center - tr.center)
                duration == IF ~options.animate THEN 0
                            ELSE IF "duration" \in options.has THEN options.duration
                            ELSE FlightDuration
                s == Len(w0.sessions) + 1
                w1 == [w0 EXCEPT
                         !.sessions = Append(@, Session("flyTo", w0, zoom,
                                          bearing, pitch, center, duration, 0)),
                         !.cam.zooming = TRUE,
                         !.cam.rotating = (tr.bearing # bearing),
                         !.cam.pitching = (pitch # tr.pitch)]
            IN IF w0.exc THEN w0
               ELSE IF u1 = 0 /\ zoom = tr.zoom THEN easeTo(w0, options, call)
               ELSE _ease(_prepareEase(Mark(w1, "begin", "flyTo", s, call),
                                       s, FALSE), s)
    IN Stopped(stop(w))

\* Camera.setZoom(zoom)
setZoom(w, zoom) == jumpTo(w, NoAnimation(Target({"zoom"}, zoom, 0, 0, 0)))

\* The argument of setMinZoom and setMaxZoom: a zoom, or null.
Zoom(zoom) == NoAnimation(Target({"zoom"}, zoom, 0, 0, 0))

Null == NoAnimation(Nowhere)

\* The argument of setMaxBounds: bounds from west to east, or null.
Bounds(west, east) == [has |-> {"bounds"}, west |-> west, east |-> east]

\* Assignments to tr.minZoom and tr.maxZoom. A Transform that keeps its
\* own invariant (tr.strict) brings the zoom into the new range at once;
\* one that does not leaves that to the Map.
SetMinZoom(tr, minZoom) ==
    [tr EXCEPT !.minZoom = minZoom,
               !.zoom = IF tr.strict /\ @ < minZoom THEN minZoom ELSE @]

SetMaxZoom(tr, maxZoom) ==
    [tr EXCEPT !.maxZoom = maxZoom,
               !.zoom = IF tr.strict /\ @ > maxZoom THEN maxZoom ELSE @]

\* No setZoom after the new minimum is stored.
Mut_setMinZoom(w, options) ==
    LET minZoom == IF "zoom" \in options.has THEN options.zoom ELSE MinZoom
    IN IF w.exc THEN w
       ELSE IF minZoom >= MinZoom /\ minZoom <= w.tr.maxZoom
       THEN [w EXCEPT !.tr = SetMinZoom(@, minZoom)]
       ELSE [w EXCEPT !.exc = TRUE]

\* Map.setMinZoom(minZoom)
setMinZoom(w, options) ==
    LET minZoom == IF "zoom" \in options.has THEN options.zoom ELSE MinZoom
        Updated(w1) == IF w1.tr.zoom < minZoom THEN setZoom(w1, minZoom) ELSE w1
    IN IF w.exc THEN w
       ELSE IF minZoom >= MinZoom /\ minZoom <= w.tr.maxZoom
       THEN Updated([w EXCEPT !.tr = SetMinZoom(@, minZoom)])
       ELSE [w EXCEPT !.exc = TRUE]

\* setMaxZoom that takes any maximum.
Mut_setMaxZoom(w, options) ==
    LET maxZoom == IF "zoom" \in options.has THEN options.zoom ELSE MaxZoom
        Updated(w1) == IF w1.tr.zoom > maxZoom THEN setZoom(w1, maxZoom) ELSE w1
    IN IF w.exc THEN w
       ELSE Updated([w EXCEPT !.tr = SetMaxZoom(@, maxZoom)])

\* Map.setMaxZoom(maxZoom)
setMaxZoom(w, options) ==
    LET maxZoom == IF "zoom" \in options.has THEN options.zoom ELSE MaxZoom
        Updated(w1) == IF w1.tr.zoom > maxZoom THEN setZoom(w1, maxZoom) ELSE w1
    IN IF w.exc THEN w
       ELSE IF maxZoom >= w.tr.minZoom
       THEN Updated([w EXCEPT !.tr = SetMaxZoom(@, maxZoom)])
       ELSE [w EXCEPT !.exc = TRUE]

\* Map.setMaxBounds(lnglatbounds): null clears the range by storing an
\* empty array.
setMaxBounds(w, options) ==
    IF w.exc THEN w
    ELSE IF "bounds" \in options.has
    THEN [w EXCEPT !.tr = _constrain([@ EXCEPT !.lngRange =
                              Range(<<options.west, options.east>>)])]
    ELSE [w EXCEPT !.tr.lngRange = Range(<<>>)]

\* util.warnOnce(message): written to the console the first time only.
warnOnce(w, message) ==
    IF message \in w.warnings.history THEN w
    ELSE [w EXCEPT !.warnings.history = @ \cup {message},
                   !.warnings.console = Append(@, message)]

PaddingMessage == "options.padding must be a positive number, or an Object"

FitMessage == "Map cannot fit within canvas"

PaddingKeys == {"bottom", "left", "right", "top"}

Min(a, b) == IF a < b THEN a ELSE b

\* tr.scaleZoom(tr.scale * num / den), in whole zoom levels: the zoom at
\* which what is den pixels wide at zoom 0 is num pixels wide. A scale of 0
\* is below every zoom.
RECURSIVE scaleZoom(_, _)
scaleZoom(num, den) ==
    IF num = 0 THEN MinZoom - 1
    ELSE IF num >= 2 * den THEN scaleZoom(num, 2 * den) + 1
    ELSE IF num < den THEN scaleZoom(2 * num, den) - 1
    ELSE 0

\* fitBounds that goes on after the warning about the fit.
Mut_fitBounds(w, options, call) ==
    LET padding == options.padding
        x == options.offset[1] + padding.left - padding.right
        lateralPadding == Min(padding.right, padding.left)
        numX == w.tr.width - lateralPadding * 2 - Abs(x) * 2
        target == NoAnimation(Target({"center", "zoom", "bearing"},
                      Min(scaleZoom(Abs(numX), options.size[1]), w.tr.maxZoom),
                      0, 0, options.center))
    IN IF w.exc THEN w
       ELSE IF options.keys # PaddingKeys THEN warnOnce(w, PaddingMessage)
       ELSE IF options.linear THEN easeTo(w, target, call)
       ELSE flyTo(w, target, call)

\* fitBounds(bounds, options): the bounds are given by the size of their
\* projection at zoom 0 and by the longitude of their middle; a padding that
\* was a number has all four keys.
fitBounds(w, options, call) ==
    LET padding == options.padding
        x == options.offset[1] + padding.left - padding.right
        y == options.offset[2] + padding.top - padding.bottom
        lateralPadding == Min(padding.right, padding.left)
        verticalPadding == Min(padding.top, padding.bottom)
        numX == w.tr.width - lateralPadding * 2 - Abs(x) * 2
        numY == w.tr.height - verticalPadding * 2 - Abs(y) * 2
        \* Math.min(scaleX, scaleY), for scaleX = numX / size.x
        zoom == IF numX * options.size[2] <= numY * options.size[1]
                THEN scaleZoom(numX, options.size[1])
                ELSE scaleZoom(numY, options.size[2])
        target == NoAnimation(Target({"center", "zoom", "bearing"},
                      Min(zoom, w.tr.maxZoom), 0, 0, options.center))
    IN IF w.exc THEN w
       ELSE IF options.keys # PaddingKeys THEN warnOnce(w, PaddingMessage)
       ELSE IF numY < 0 \/ numX < 0 THEN warnOnce(w, FitMessage)
       ELSE IF options.linear THEN easeTo(w, target, call)
       ELSE flyTo(w, target, call)

\* The frame closure of session s, called with k = easing(t).
frame(w, s, k) ==
    LET c == w.sessions[s]
        w1 == [w EXCEPT
                 !.tr.zoom = IF c.kind = "flyTo" \/ w.cam.zooming
                             THEN clamp(interpolate(c.startZoom, c.zoom, k),
                                        w.tr.minZoom, w.tr.maxZoom)
                             ELSE @,
                 !.tr.bearing = IF w.cam.rotating
                                THEN interpolate(c.startBearing, c.bearing, k) ELSE @,
                 !.tr.pitch = IF w.cam.pitching
                              THEN clamp(interpolate(c.startPitch, c.pitch, k),
                                         0, MaxPitch)
                              ELSE @,
                 !.tr.center = _constrain([w.tr EXCEPT !.center =
                         interpolate(c.startCenter, c.center, k)]).center]
    IN IF w.exc THEN w ELSE _fireMoveEvents(Mark(w1, "frame", "frame", s, 0), s)

\* The callback _ease gives to browser.timed, called with t.
timed(w, s, t) ==
    LET Finished(w2) == IF w2.exc THEN w2 ELSE Mark(w2, "tickEnd", "tick", s, t)
        Drawn(w1) == Finished(IF t = 1 THEN _finishEase(w1) ELSE w1)
    IN IF w.exc THEN w
       ELSE Drawn(frame(Mark(w, "tick", "tick", s, t), s, easing(t)))

\* _ease(frame, finish, options): browser.timed calls the callback at once
\* with t = 1 and returns null when the duration is 0; otherwise it starts
\* a timer and returns the function that aborts it.
_ease(w, s) ==
    LET Timed(w2) ==
            IF w2.exc THEN w2
            ELSE [w2 EXCEPT !.cam.abortFn = Undefined,
                            !.sessions[s].timer = "done"]
    IN IF w.exc THEN w
       ELSE IF w.sessions[s].duration = 0
       THEN Timed(timed([w EXCEPT !.cam.finishFn = s], s, 1))
       ELSE [w EXCEPT !.cam.finishFn = s, !.cam.abortFn = s,
                      !.sessions[s].timer = "live"]

\* The Camera as the record the operations take, and the variables after
\* an operation has returned or thrown.
World ==
    [tr |-> transform, cam |-> camera, sessions |-> sessions,
     timeouts |-> timeouts, listeners |-> listeners, trace |-> <<>>,
     exc |-> FALSE, warnings |-> warnings]

\* A session nothing refers to any more: no timer, no _abortFn, no
\* _finishFn and no timeout holds its closures.
Unreachable(w, s) ==
    /\ w.sessions[s].timer # "live"
    /\ w.cam.abortFn # s
    /\ w.cam.finishFn # s
    /\ s \notin w.timeouts

Collected(w, s) ==
    IF Unreachable(w, s)
    THEN [w.sessions[s] EXCEPT
            !.startZoom = 0, !.zoom = 0, !.startBearing = 0, !.bearing = 0,
            !.startPitch = 0, !.pitch = 0, !.startCenter = 0, !.center = 0,
            !.duration = 0, !.delayEndEvents = 0, !.frames = 0,
            !.timer = "none"]
    ELSE w.sessions[s]

\* What the browser ran, as the first entry of the trace of the step shows:
\* for the frame of a timer, with the number of frames the timer has run
\* before its last.
Ran(w) ==
    IF w.trace = <<>> THEN [kind |-> "none", sid |-> 0, n |-> 0]
    ELSE IF w.trace[1].kind = "tick"
    THEN [kind |-> "tick", sid |-> w.trace[1].sid,
          n |-> w.sessions[w.trace[1].sid].frames]
    ELSE IF w.trace[1].kind = "timeout"
    THEN [kind |-> "timeout", sid |-> w.trace[1].sid, n |-> 0]
    ELSE [kind |-> "call", sid |-> 0, n |-> 0]

Becomes(w) ==
    /\ ran' = Ran(w)
    /\ transform' = w.tr
    /\ camera' = w.cam
    /\ sessions' = [s \in 1 .. Len(w.sessions) |-> Collected(w, s)]
    /\ timeouts' = w.timeouts
    /\ listeners' = w.listeners
    /\ trace' = w.trace
    /\ threw' = (threw \/ w.exc)
    /\ warnings' = w.warnings
    /\ UNCHANGED <<poolVars, callVars>>

\* The listeners that have not acted yet.
Armed == {type \in EventTypes : listeners[type] # NoCall}

\* The calls a listener makes.
ListenerCalls ==
    { Call("stop", NoCall.options),
      Call("easeTo", WithAnimation(Zoomed, {}, 0, TRUE, FALSE, 0)),
      Call("easeTo", WithAnimation(Zoomed, {}, 0, FALSE, FALSE, 0)) }

\* The events the page listens to: the first and the last of a session,
\* the one of every frame, and one that depends on what is animated.
ListenTypes == {"movestart", "move", "moveend", "zoomend"}

\* One more session can start, with one for every armed listener.
Room == Len(sessions) + Cardinality(Armed) < MaxSessions

\* map.on(type, listener)
On(type, call) ==
    /\ listeners[type] = NoCall
    /\ Cardinality(Armed) < MaxListeners
    /\ Room
    /\ listeners' = [listeners EXCEPT ![type] = call]
    /\ trace' = <<>>
    /\ ran' = Ran(World)
    /\ UNCHANGED <<transform, camera, sessions, timeouts, threw, warnings>>
    /\ UNCHANGED <<poolVars, callVars>>


Stop ==
    Becomes(invoke(World, Call("stop", NoCall.options)))

JumpTo(options) ==
    Becomes(invoke(World, Call("jumpTo", options)))

EaseTo(options) ==
    /\ Room
    /\ Becomes(invoke(World, Call("easeTo", options)))

FlyTo(options) ==
    /\ Room
    /\ Becomes(invoke(World, Call("flyTo", options)))

\* A tick of the timer browser.timed started for session s: at t = 1
\* (the duration has passed) it calls the callback and is over; before, it
\* calls the callback and asks for the next frame. A callback that throws
\* ends the timer.
Frame(s, t) ==
    /\ s \in Live(World)
    /\ t = 0 => sessions[s].frames < MaxFrames
    /\ LET Ticked(w1) ==
               IF w1.exc /\ w1.sessions[s].timer = "live"
               THEN [w1 EXCEPT !.sessions[s].timer = "done"] ELSE w1
       IN Becomes(Ticked(timed(
              [World EXCEPT
                 !.sessions[s].frames = IF t = 0 THEN @ + 1 ELSE @,
                 !.sessions[s].timer = IF t = 1 THEN "done" ELSE @], s, t)))

\* The timeout the finish closure of easeTo set for delayEndEvents.
OnEaseEnd(s) ==
    /\ s \in timeouts
    /\ Becomes(_easeToEnd(Mark([World EXCEPT !.timeouts = @ \ {s}],
                                "timeout", "timeout", s, 0), s))

\* The size of the map's container, in pixels.
Viewport == [width |-> 400, height |-> 300]

\* new Transform(minZoom, maxZoom, renderWorldCopies)
NewTransform(minZoom, maxZoom, renderWorldCopies) ==
    [zoom |-> clamp(0, minZoom, maxZoom), bearing |-> 0, pitch |-> 0,
     center |-> 0, width |-> Viewport.width, height |-> Viewport.height,
     minZoom |-> minZoom, maxZoom |-> maxZoom,
     renderWorldCopies |-> renderWorldCopies, lngRange |-> NoRange,
     strict |-> TRUE]

\* The Camera a constructor leaves, around the Transform it was given.
Constructed ==
    /\ camera = [moving |-> FALSE, zooming |-> FALSE, rotating |-> FALSE,
                 pitching |-> FALSE, abortFn |-> Undefined,
                 finishFn |-> Undefined, onEaseEnd |-> Undefined]
    /\ sessions = <<>>
    /\ timeouts = {}
    /\ listeners = [type \in EventTypes |-> NoCall]
    /\ trace = <<>>
    /\ threw = FALSE
    /\ ran = [kind |-> "none", sid |-> 0, n |-> 0]
    /\ warnings = [history |-> {}, console |-> <<>>]

CameraInit ==
    /\ transform = NewTransform(MinZoom, MaxZoom, TRUE)
    /\ Constructed

CameraNext ==
    \/ Stop
    \/ \E t \in JumpTargets : JumpTo(NoAnimation(t))
    \/ \E o \in EaseOptions : EaseTo(o)
    \/ \E o \in FlyOptions : FlyTo(o)
    \/ \E s \in 1 .. Len(sessions), t \in {0, 1} : Frame(s, t)
    \/ \E s \in timeouts : OnEaseEnd(s)
    \/ \E type \in ListenTypes, call \in ListenerCalls : On(type, call)

\* No call of _normalizeBearing on its own.
NoBearings == [bearing |-> 0, currentBearing |-> 0, returned |-> FALSE, value |-> 0]

\* No call of LngLat on its own.
NoLngLat == [op |-> "none", args |-> <<>>, returned |-> FALSE,
             threw |-> FALSE, value |-> <<>>]

\* An Evented on which nothing was called: _listeners and _oneTimeListeners
\* are undefined, which on, once and fire read as no listeners.
EventTypeNames == {"marco", "polo"}

NoEvented ==
    [_listeners |-> [type \in EventTypeNames |-> <<>>],
     _oneTimeListeners |-> [type \in EventTypeNames |-> <<>>],
     made |-> <<>>, fired |-> <<>>, called |-> <<>>]

\* No flight is computed on its own.
NoFlight == [flying |-> FALSE]

\* No Map renders on its own: there is no style, _styleDirty, _sourcesDirty,
\* _repaint and _frameId are undefined, and the browser was asked for
\* nothing.
NoRender ==
    [style |-> FALSE, styleDirty |-> FALSE, sourcesDirty |-> FALSE,
     repaint |-> FALSE, frameId |-> 0, pending |-> {}, requested |-> 0,
     lost |-> FALSE, animating |-> FALSE]

Init ==
    /\ PoolInit
    /\ CameraInit
    /\ bearings = NoBearings
    /\ lngLat = NoLngLat
    /\ evented = NoEvented
    /\ flight = NoFlight
    /\ render = NoRender

SpecPool == Init /\ [][PoolNext]_vars

\* The contexts of a page that has set mapboxgl.workerCount to 2.
ContextInit == Init /\ workerCount = 2

SpecContext == ContextInit /\ [][ContextNext]_vars

\* The Camera of a page that has not set mapboxgl.workerCount.
CameraPageInit == Init /\ workerCount = 0

SpecCamera == CameraPageInit /\ [][CameraNext]_vars

\* The steps Frame(s, t) and OnEaseEnd(s), as `ran` shows them.
FrameRuns(s) ==
    /\ s \in Live(World)
    /\ ran' \in {[kind |-> "tick", sid |-> s, n |-> k] : k \in 0 .. MaxFrames}

TimeoutRuns(s) ==
    /\ s \in timeouts
    /\ ran' = [kind |-> "timeout", sid |-> s, n |-> 0]

\* The browser runs every frame it was asked for and every timeout that was
\* set: a timer that stays live gets its next frame, and its last; a
\* timeout that stays set is run.
FairFrames ==
    /\ \A s \in 1 .. MaxSessions : WF_ran(FrameRuns(s))
    /\ \A s \in 1 .. MaxSessions : WF_ran(TimeoutRuns(s))

SpecCameraFair == CameraPageInit /\ [][CameraNext]_vars /\ FairFrames

(***************************************************************************)
(* The Map: a Camera made by the Map constructor, with the setters of the  *)
(* zoom range and of the maximal bounds. The page registers no listener.   *)
(***************************************************************************)
\* The minZoom and maxZoom given to the constructor and to the setters: the
\* defaults, a zoom between them, and zooms outside of them.
MidZoom == (MinZoom + MaxZoom) \div 2

ZoomArgs == {Null, Zoom(MinZoom - 1), Zoom(MidZoom), Zoom(MaxZoom + 1),
             Zoom(MaxZoom + 2)}

\* Longitudes on both sides of the antimeridian.
East == Target({"center"}, 0, 0, 0, 170)

West == Target({"center"}, 0, 0, 0, -170)

FarEast == Target({"center"}, 0, 0, 0, 190)

CenterTargets == {East, West, FarEast}

BoundsArgs == {Null, Bounds(-170, 170)}

\* new Map(options): minZoom above maxZoom throws, and there is no map.
NewMap(min, max, renderWorldCopies, strict) ==
    LET minZoom == IF "zoom" \in min.has THEN min.zoom ELSE MinZoom
        maxZoom == IF "zoom" \in max.has THEN max.zoom ELSE MaxZoom
    IN /\ PoolInit
       /\ workerCount = 0
       /\ bearings = NoBearings
       /\ lngLat = NoLngLat
       /\ evented = NoEvented
       /\ flight = NoFlight
       /\ render = NoRender
       /\ Constructed
       /\ minZoom <= maxZoom
       /\ transform = [NewTransform(minZoom, maxZoom, renderWorldCopies)
                          EXCEPT !.strict = strict]

SetZoom(zoom) ==
    Becomes(invoke(World, Call("setZoom", zoom)))

SetMinZoomTo(minZoom) ==
    Becomes(invoke(World, Call("setMinZoom", minZoom)))

SetMaxZoomTo(maxZoom) ==
    Becomes(invoke(World, Call("setMaxZoom", maxZoom)))

SetMaxBounds(lnglatbounds) ==
    Becomes(invoke(World, Call("setMaxBounds", lnglatbounds)))

\* The zoom and its range.
ZoomRangeInit ==
    \E min, max \in ZoomArgs, strict \in BOOLEAN : NewMap(min, max, TRUE, strict)

ZoomRangeNext ==
    \/ JumpTo(NoAnimation(Beyond))
    \/ EaseTo(NoAnimation(Zoomed))
    \/ FlyTo(NoAnimation(Beyond))
    \/ \E s \in 1 .. Len(sessions), t \in {0, 1} : Frame(s, t)
    \/ SetZoom(Zoom(MidZoom))
    \/ \E minZoom \in ZoomArgs : SetMinZoomTo(minZoom)
    \/ \E maxZoom \in ZoomArgs : SetMaxZoomTo(maxZoom)

SpecZoomRange == ZoomRangeInit /\ [][ZoomRangeNext]_vars

\* Sessions that are given every target, from a camera at either of them,
\* and run to their last frame.
Home == Target({"zoom", "pitch", "bearing"}, MinZoom, 0, 0, 0)

ArrivalTargets == {Home, Turned}

ArrivalNext ==
    \/ \E t \in ArrivalTargets \cup Targets : JumpTo(NoAnimation(t))
    \/ \E t \in ArrivalTargets, d \in {0, KeyboardDelay} :
          EaseTo(WithAnimation(t, {}, 0, TRUE, FALSE, d))
    \/ \E t \in ArrivalTargets : FlyTo(NoAnimation(t))
    \/ \E s \in 1 .. Len(sessions), t \in {0, 1} : Frame(s, t)
    \/ \E s \in timeouts : OnEaseEnd(s)
    \/ Stop

SpecArrival == CameraPageInit /\ [][ArrivalNext]_vars

\* Calls of jumpTo whose center is not a LngLatLike, on a camera at rest or
\* in a session: a NaN coordinate, a latitude beyond the pole, a string, an
\* array of one number, null.
WithInput(options, input) ==
    [key \in DOMAIN options \cup {"input"} |->
        IF key = "input" THEN input ELSE options[key]]

Rejected ==
    {Array(<<NaN, Num(0)>>), Array(<<Num(0), Num(91)>>), Text,
     Array(<<Num(0)>>), null, Object(Num(0), undefined)}

Away == Target({"center", "zoom", "bearing", "pitch"}, MinZoom + 1, 90, 30, 10)

RejectedNext ==
    \/ \E t \in {Moved, Away}, input \in Rejected :
          JumpTo(WithInput(NoAnimation(t), input))
    \/ \E t \in {Moved, Away} : JumpTo(NoAnimation(t))
    \/ \E t \in {Home, Turned} : EaseTo(NoAnimation(t))
    \/ \E s \in 1 .. Len(sessions), t \in {0, 1} : Frame(s, t)

SpecRejected == CameraPageInit /\ [][RejectedNext]_vars

\* The center and the longitude range.
MaxBoundsInit ==
    \E renderWorldCopies \in BOOLEAN : NewMap(Null, Null, renderWorldCopies, TRUE)

MaxBoundsNext ==
    \/ \E t \in CenterTargets : JumpTo(NoAnimation(t))
    \/ \E t \in CenterTargets : EaseTo(NoAnimation(t))
    \/ \E t \in CenterTargets : FlyTo(NoAnimation(t))
    \/ \E s \in 1 .. Len(sessions), t \in {0, 1} : Frame(s, t)
    \/ \E lnglatbounds \in BoundsArgs : SetMaxBounds(lnglatbounds)

SpecMaxBounds == MaxBoundsInit /\ [][MaxBoundsNext]_vars

\* fitBounds: the padding with its keys, the offset, the bounds, and linear.
Padding(top, bottom, left, right) ==
    [top |-> top, bottom |-> bottom, left |-> left, right |-> right]

FitOptions ==
    [keys : {PaddingKeys, PaddingKeys \ {"top"}, PaddingKeys \cup {"middle"}},
     padding : {Padding(0, 0, 0, 0), Padding(0, 0, 250, 250)},
     offset : {<<0, 0>>, <<250, 0>>},
     size : {<<100, 100>>, <<800, 100>>},
     center : {10},
     linear : BOOLEAN]

FitBounds(options) ==
    /\ Room
    /\ Becomes(invoke(World, Call("fitBounds", options)))

FitBoundsInit == NewMap(Null, Null, TRUE, TRUE)

FitBoundsNext ==
    \/ \E o \in FitOptions : FitBounds(o)
    \/ EaseTo(NoAnimation(Zoomed))
    \/ \E s \in 1 .. Len(sessions), t \in {0, 1} : Frame(s, t)

SpecFitBounds == FitBoundsInit /\ [][FitBoundsNext]_vars

(***************************************************************************)
(* _normalizeBearing on its own: the arguments are drawn, the function is  *)
(* called once.                                                            *)
(***************************************************************************)
Revolution == 360

MaxBearing == 200   \* target bearings run from -MaxBearing to MaxBearing

\* The target bearings a caller gives: more than a revolution of them, on
\* both sides of the range util.wrap maps them to.
TargetBearings == -MaxBearing .. MaxBearing

\* The start bearings: what getBearing() returns, and a revolution around.
StartBearings == -Revolution .. Revolution

BearingInit ==
    /\ PoolInit
    /\ workerCount = 0
    /\ CameraInit
    /\ lngLat = NoLngLat
    /\ evented = NoEvented
    /\ flight = NoFlight
    /\ render = NoRender
    /\ bearings \in {[bearing |-> b, currentBearing |-> c,
                      returned |-> FALSE, value |-> 0] :
                        b \in TargetBearings, c \in StartBearings}

\* this._normalizeBearing(bearing, currentBearing)
NormalizeBearing ==
    /\ ~bearings.returned
    /\ bearings' = [bearings EXCEPT
                      !.returned = TRUE,
                      !.value = _normalizeBearing(bearings.bearing,
                                                  bearings.currentBearing)]
    /\ UNCHANGED <<poolVars, cameraVars, lngLatVars, eventedVars, flightVars, renderVars>>

BearingNext == NormalizeBearing

SpecBearing == BearingInit /\ [][BearingNext]_vars

(***************************************************************************)
(* LngLat (data/load_geometry.js): the constructor and convert, each       *)
(* called once with arguments drawn from the values of JavaScript.         *)
(***************************************************************************)
\* Latitudes at and beyond the poles, a longitude beyond the antimeridian.
Coordinates == {Num(n) : n \in {-181, -91, -90, 0, 90, 91}}

Primitives == Coordinates \cup {NaN, undefined, null, Digits(45), Text}

Inputs ==
    Primitives
    \cup {[t |-> "LngLat", lng |-> 0, lat |-> 90]}
    \cup {Array(<<>>), Array(<<Num(0)>>), Array(<<Num(0), Num(0), Num(0)>>)}
    \cup {Array(<<lng, lat>>) : lng, lat \in Primitives}
    \cup {Object(lng, lat) : lng, lat \in Primitives}

LngLatInit ==
    /\ PoolInit
    /\ workerCount = 0
    /\ CameraInit
    /\ bearings = NoBearings
    /\ evented = NoEvented
    /\ flight = NoFlight
    /\ render = NoRender
    /\ lngLat \in {[NoLngLat EXCEPT !.op = "new", !.args = <<lng, lat>>] :
                     lng, lat \in Primitives}
              \cup {[NoLngLat EXCEPT !.op = "convert", !.args = <<input>>] :
                     input \in Inputs}

Done(result) ==
    /\ ~lngLat.returned
    /\ lngLat' = [lngLat EXCEPT !.returned = TRUE, !.threw = result.threw,
                                !.value = result.value]
    /\ UNCHANGED <<poolVars, cameraVars, bearingVars, eventedVars, flightVars, renderVars>>

NewLngLat ==
    /\ lngLat.op = "new"
    /\ Done(LngLat(lngLat.args[1], lngLat.args[2]))

Convert ==
    /\ lngLat.op = "convert"
    /\ Done(convert(lngLat.args[1]))

LngLatNext == NewLngLat \/ Convert

SpecLngLat == LngLatInit /\ [][LngLatNext]_vars

(***************************************************************************)
(* Evented on its own: the page makes listeners, registers them with on    *)
(* and once, removes them with off, and fires events. A listener is a      *)
(* function of the page: it counts its calls, and one that fires does so   *)
(* when it is first called, with the type it was made for; one that calls  *)
(* on, once or off does so when it is first called, for itself and the     *)
(* type of the event. `called` has the calls of listeners of the last step.*)
(***************************************************************************)
MaxMade == 3     \* listeners the page makes
MaxFires == 2    \* calls of fire by the page

ListenerKinds == {"log", "fire"}

\* _addEventListener(type, listener, listenerList)
_addEventListener(type, listener, listenerList) ==
    [listenerList EXCEPT ![type] = Append(@, listener)]

\* The first index of listener in list, 0 for indexOf's -1.
IndexOf(list, listener) ==
    IF \E i \in 1 .. Len(list) : list[i] = listener
    THEN CHOOSE i \in 1 .. Len(list) :
            /\ list[i] = listener
            /\ \A j \in 1 .. i - 1 : list[j] # listener
    ELSE 0

\* list.splice(index, 1)
Splice(list, index) ==
    [i \in 1 .. Len(list) - 1 |-> IF i < index THEN list[i] ELSE list[i + 1]]

\* _removeEventListener(type, listener, listenerList)
_removeEventListener(type, listener, listenerList) ==
    LET index == IndexOf(listenerList[type], listener)
    IN IF index # 0
       THEN [listenerList EXCEPT ![type] = Splice(@, index)]
       ELSE listenerList

\* Evented.listens(type), of an Evented without parent.
listens(e, type) ==
    Len(e._listeners[type]) > 0 \/ Len(e._oneTimeListeners[type]) > 0

\* Evented.on(type, listener)
EventedOn(e, type, listener) ==
    [e EXCEPT !._listeners = _addEventListener(type, listener, @)]

\* Evented.once(type, listener)
EventedOnce(e, type, listener) ==
    [e EXCEPT !._oneTimeListeners = _addEventListener(type, listener, @)]

\* Evented.off(type, listener)
EventedOff(e, type, listener) ==
    [e EXCEPT !._listeners = _removeEventListener(type, listener, @),
              !._oneTimeListeners = _removeEventListener(type, listener, @)]

RECURSIVE EventedFire(_, _), CallListener(_, _, _), CallListeners(_, _, _, _),
          CallOneTimeListeners(_, _, _, _)

\* listener.call(this, data)
CallListener(e, listener, type) ==
    LET kind == e.made[listener].kind
        Called(e1) ==
            IF e.made[listener].calls # 0 THEN e1
            ELSE CASE kind = "fire" -> EventedFire(e1, e.made[listener].type)
                   [] kind = "on" -> EventedOn(e1, type, listener)
                   [] kind = "once" -> EventedOnce(e1, type, listener)
                   [] kind = "off" -> EventedOff(e1, type, listener)
                   [] OTHER -> e1
    IN Called([e EXCEPT !.made[listener].calls = @ + 1,
                        !.called = Append(@, listener)])

\* The loop of fire over the copy it has made of _listeners[type].
CallListeners(e, copied, i, type) ==
    IF i > Len(copied) THEN e
    ELSE CallListeners(CallListener(e, copied[i], type), copied, i + 1, type)

\* The loop of fire over the copy it has made of _oneTimeListeners[type]:
\* each listener is called and then removed.
CallOneTimeListeners(e, oneTimeListeners, i, type) ==
    LET Removed(e1) ==
            [e1 EXCEPT !._oneTimeListeners =
                _removeEventListener(type, oneTimeListeners[i], @)]
    IN IF i > Len(oneTimeListeners) THEN e
       ELSE CallOneTimeListeners(
                Removed(CallListener(e, oneTimeListeners[i], type)),
                oneTimeListeners, i + 1, type)

\* Evented.fire(type, data)
EventedFire(e, type) ==
    LET Listened(e1) ==
            CallOneTimeListeners(e1, e1._oneTimeListeners[type], 1, type)
    IN IF listens(e, type)
       THEN Listened(CallListeners(e, e._listeners[type], 1, type))
       ELSE e

\* A function the page makes to register it.
Listener(type, kind, once) ==
    [type |-> type, kind |-> kind, once |-> once, calls |-> 0, off |-> FALSE]

Registers(e) ==
    /\ evented' = e
    /\ UNCHANGED <<poolVars, cameraVars, bearingVars, lngLatVars, flightVars, renderVars>>

ListenOn(type, kind) ==
    /\ Len(evented.made) < MaxMade
    /\ Registers(EventedOn([evented EXCEPT
                     !.made = Append(@, Listener(type, kind, FALSE)),
                     !.called = <<>>],
                 type, Len(evented.made) + 1))

ListenOnce(type, kind) ==
    /\ Len(evented.made) < MaxMade
    /\ Registers(EventedOnce([evented EXCEPT
                     !.made = Append(@, Listener(type, kind, TRUE)),
                     !.called = <<>>],
                 type, Len(evented.made) + 1))

ListenOff(listener) ==
    /\ listener \in 1 .. Len(evented.made)
    /\ ~evented.made[listener].off
    /\ Registers(EventedOff([evented EXCEPT !.made[listener].off = TRUE,
                                             !.called = <<>>],
                            evented.made[listener].type, listener))

FireEvent(type) ==
    /\ Len(evented.fired) < MaxFires
    /\ Registers(EventedFire([evented EXCEPT !.fired = Append(@, type),
                                              !.called = <<>>], type))

EventedInit ==
    /\ PoolInit
    /\ workerCount = 0
    /\ CameraInit
    /\ bearings = NoBearings
    /\ lngLat = NoLngLat
    /\ evented = NoEvented
    /\ flight = NoFlight
    /\ render = NoRender

EventedNext ==
    \/ \E type \in EventTypeNames, kind \in ListenerKinds : ListenOn(type, kind)
    \/ \E type \in EventTypeNames, kind \in ListenerKinds : ListenOnce(type, kind)
    \/ \E listener \in 1 .. MaxMade : ListenOff(listener)
    \/ \E type \in EventTypeNames : FireEvent(type)

SpecEvented == EventedInit /\ [][EventedNext]_vars

\* Listeners that register and remove themselves while fire calls them.
DispatchKinds == {"log", "on", "once", "off"}

DispatchNext ==
    \/ \E type \in EventTypeNames, kind \in DispatchKinds : ListenOn(type, kind)
    \/ \E type \in EventTypeNames, kind \in DispatchKinds : ListenOnce(type, kind)
    \/ \E listener \in 1 .. MaxMade : ListenOff(listener)
    \/ \E type \in EventTypeNames : FireEvent(type)

SpecDispatch == EventedInit /\ [][DispatchNext]_vars

(***************************************************************************)
(* The path of flyTo on its own. The numbers of the computation are        *)
(* fractions in lowest terms. A number the code holds as a logarithm,      *)
(* Math.log(q), is held as q: cosh and sinh of it are (q + 1/q) / 2 and    *)
(* (q - 1/q) / 2, and r0 + rho * s is held as q0 * e^(rho * s). The        *)
(* flights are those whose square roots come out even, so that every       *)
(* number of the path is computed exactly.                                 *)
(***************************************************************************)
RECURSIVE GCD(_, _)
GCD(a, b) == IF b = 0 THEN a ELSE GCD(b, a % b)

\* n / d in lowest terms, d # 0.
Frac(n, d) ==
    LET g == GCD(Abs(n), Abs(d))
    IN [n |-> (IF d < 0 THEN -n ELSE n) \div g, d |-> Abs(d) \div g]

Whole(n) == Frac(n, 1)

Plus(x, y) == Frac(x.n * y.d + y.n * x.d, x.d * y.d)

Minus(x, y) == Frac(x.n * y.d - y.n * x.d, x.d * y.d)

Mult(x, y) == Frac(x.n * y.n, x.d * y.d)

Over(x, y) == Frac(x.n * y.d, x.d * y.n)

Below(x, y) == x.n * y.d < y.n * x.d

\* Math.sqrt of a fraction whose root is a fraction.
Root(x) ==
    Frac(CHOOSE k \in 0 .. x.n : k * k = x.n, CHOOSE k \in 1 .. x.d : k * k = x.d)

\* cosh(n) and sinh(n) of flyTo, of the number whose exponential is q.
cosh(q) == Over(Plus(q, Over(Whole(1), q)), Whole(2))

sinh(q) == Over(Minus(q, Over(Whole(1), q)), Whole(2))

Samples == 4     \* the values of s after 0 at which w(s) is computed

\* w0 = Math.max(tr.width, tr.height)
flyTo_w0 == Whole(IF Viewport.width > Viewport.height
                  THEN Viewport.width ELSE Viewport.height)

\* w1 = w0 / scale
flyTo_w1(f) == Over(flyTo_w0, f.scale)

\* r(i), as e^r(i).
flyTo_r(f, i) ==
    LET w0 == flyTo_w0
        w1 == flyTo_w1(f)
        rho2 == Mult(f.rho, f.rho)
        far == Mult(Mult(rho2, rho2), Mult(f.u1, f.u1))
        b == Over(IF i = 1
                  THEN Minus(Minus(Mult(w1, w1), Mult(w0, w0)), far)
                  ELSE Plus(Minus(Mult(w1, w1), Mult(w0, w0)), far),
                  Mult(Mult(Mult(Whole(2), IF i = 1 THEN w1 ELSE w0), rho2),
                        f.u1))
    IN Minus(Root(Plus(Mult(b, b), Whole(1))), b)

\* w(s) turned upside down.
Mut_flyTo_w(f, es) ==
    IF f.u1.n = 0
    THEN IF Below(flyTo_w1(f), flyTo_w0) THEN es ELSE Over(Whole(1), es)
    ELSE Over(cosh(Mult(flyTo_r(f, 0), es)), cosh(flyTo_r(f, 0)))

\* w(s), with s given as es = e^(rho * s): cosh(r0) / cosh(r0 + rho * s),
\* and Math.exp(k * rho * s) with k = -1 or 1 when u1 is 0.
flyTo_w(f, es) ==
    IF f.u1.n = 0
    THEN IF Below(flyTo_w1(f), flyTo_w0) THEN Over(Whole(1), es) ELSE es
    ELSE Over(cosh(flyTo_r(f, 0)), cosh(Mult(flyTo_r(f, 0), es)))

\* S, as e^(rho * S): S = (r(1) - r0) / rho, and
\* Math.abs(Math.log(w1 / w0)) / rho when u1 is 0.
flyTo_S(f) ==
    IF f.u1.n = 0
    THEN IF Below(flyTo_w1(f), flyTo_w0)
         THEN Over(flyTo_w0, flyTo_w1(f)) ELSE Over(flyTo_w1(f), flyTo_w0)
    ELSE Over(flyTo_r(f, 1), flyTo_r(f, 0))

\* The value e^(rho * s) at the k-th of the points between s = 0 and s = S.
PointOnPath(f, k) ==
    Plus(Whole(1), Over(Mult(Whole(k), Minus(flyTo_S(f), Whole(1))),
                        Whole(Samples)))

\* The flight whose r0 and r(1) are the logarithms of q0 and q1: its scale
\* is cosh(r1) / cosh(r0) and its ground distance
\* w0 * (cosh(r0) * tanh(r1) - sinh(r0)) / rho^2.
Ends == {Frac(1, 3), Frac(1, 2), Whole(1), Whole(2), Whole(3)}

Curves == {Whole(1), Whole(2)}

FlightBetween(q0, q1, rho) ==
    [flying |-> TRUE,
     scale |-> Over(cosh(q1), cosh(q0)),
     u1 |-> Over(Mult(flyTo_w0,
                       Minus(Over(Mult(cosh(q0), sinh(q1)), cosh(q1)), sinh(q0))),
                 Mult(rho, rho)),
     rho |-> rho, k |-> 0, spans |-> <<>>]

\* The flights over no ground: from one zoom to another at one center.
FlightInPlace(scale, rho) ==
    [flying |-> TRUE, scale |-> scale, u1 |-> Whole(0), rho |-> rho,
     k |-> 0, spans |-> <<>>]

Flights ==
    {FlightBetween(q0, q1, rho) : q0 \in Ends, q1 \in Ends, rho \in Curves}
    \cup {FlightInPlace(scale, rho) :
             scale \in {Frac(1, 4), Frac(1, 2), Whole(2), Whole(4)},
             rho \in Curves}

\* A flight: the zoom changes, and r(1) is beyond r0.
FlightInit ==
    /\ PoolInit
    /\ workerCount = 0
    /\ CameraInit
    /\ bearings = NoBearings
    /\ lngLat = NoLngLat
    /\ evented = NoEvented
    /\ render = NoRender
    /\ flight \in {f \in Flights :
                     /\ f.scale # Whole(1)
                     /\ f.u1.n >= 0
                     /\ Below(Whole(1), flyTo_S(f))}

\* The frame computes w(s) at the next point of the path.
Span ==
    /\ flight.flying
    /\ flight.k <= Samples
    /\ flight' = [flight EXCEPT
                    !.k = @ + 1,
                    !.spans = Append(@, flyTo_w(flight, PointOnPath(flight, flight.k)))]
    /\ UNCHANGED <<poolVars, cameraVars, bearingVars, lngLatVars, eventedVars, renderVars>>

FlightNext == Span

SpecFlight == FlightInit /\ [][FlightNext]_vars

(***************************************************************************)
(* The render loop of the Map (src/ui/map.js), on its own: a Map with a    *)
(* style, m, whose frames the browser runs one at a time. browser.frame    *)
(* gives a new id with every request; `pending` has the ids of the frames  *)
(* that were requested and neither run nor cancelled.                      *)
(***************************************************************************)
MaxRequests == 4   \* frames the Map asks the browser for in one run

\* Map._rerender()
_rerender(m) ==
    IF m.style /\ m.frameId = 0
    THEN [m EXCEPT !.frameId = m.requested + 1,
                   !.requested = @ + 1,
                   !.pending = @ \cup {m.requested + 1}]
    ELSE m

\* Map._update(updateStyle)
_update(m, updateStyle) ==
    IF ~m.style THEN m
    ELSE _rerender([m EXCEPT !.styleDirty = @ \/ updateStyle,
                             !.sourcesDirty = TRUE])

\* Map.resize(): of its events, move calls _update(false) and moveend
\* sets the animation loop for 300 ms and calls _rerender().
resize(m) ==
    LET MoveEnded(m1) == _rerender([m1 EXCEPT !.animating = TRUE])
    IN MoveEnded(_update(m, FALSE))

\* Map._contextLost(event): the frame is cancelled, _frameId is left.
_contextLost(m) ==
    [m EXCEPT !.pending = IF m.frameId # 0 THEN @ \ {m.frameId} ELSE @,
              !.lost = TRUE]

\* Map._contextRestored(event)
_contextRestored(m) == _update(resize([m EXCEPT !.lost = FALSE]), FALSE)

\* Map._render(), with no listener of render and load.
_render(m) ==
    LET Again(m1) ==
            IF m1.sourcesDirty \/ m1.repaint \/ m1.styleDirty
            THEN _rerender(m1) ELSE m1
    IN Again([m EXCEPT !.sourcesDirty = FALSE,
                       !.frameId = 0,
                       !.styleDirty = m.animating])

Renders(m) ==
    /\ render.requested < MaxRequests
    /\ render' = m
    /\ UNCHANGED <<poolVars, cameraVars, bearingVars, lngLatVars, eventedVars,
                   flightVars>>

\* The style, a source or a control calls _update.
Update(updateStyle) == Renders(_update(render, updateStyle))

\* map.repaint = value
SetRepaint(value) ==
    Renders(_update([render EXCEPT !.repaint = value], FALSE))

\* The browser runs the frame it has given the id.
RenderFrame(id) ==
    /\ id \in render.pending
    /\ Renders(_render([render EXCEPT !.pending = @ \ {id}]))

\* The canvas fires webglcontextlost.
ContextLost ==
    /\ ~render.lost
    /\ Renders(_contextLost(render))

\* The canvas fires webglcontextrestored.
ContextRestored ==
    /\ render.lost
    /\ Renders(_contextRestored(render))

\* The 300 ms of the animation loop are over.
AnimationEnds ==
    /\ render.animating
    /\ Renders([render EXCEPT !.animating = FALSE])

\* The Map its constructor has made and given a style: the moveend of its
\* resize() has set the animation loop, and nothing has called _update
\* since the style is there.
RenderInit ==
    /\ PoolInit
    /\ workerCount = 0
    /\ CameraInit
    /\ bearings = NoBearings
    /\ lngLat = NoLngLat
    /\ evented = NoEvented
    /\ flight = NoFlight
    /\ render = [NoRender EXCEPT !.style = TRUE, !.animating = TRUE]

RenderNext ==
    \/ \E updateStyle \in BOOLEAN : Update(updateStyle)
    \/ \E value \in BOOLEAN : SetRepaint(value)
    \/ \E id \in 1 .. MaxRequests : RenderFrame(id)
    \/ ContextLost
    \/ ContextRestored
    \/ AnimationEnds

SpecRender == RenderInit /\ [][RenderNext]_vars

(***************************************************************************)
(* Worker pool: properties.                                                *)
(***************************************************************************)
\* What was fired on the context-side counterpart of logical worker id.
WorkerFired(id) ==
    LET c == pooledWorkers[id].nativeWorker
    IN IF id \in DOMAIN workerPooledWorkers[c]
       THEN workerPooledWorkers[c][id].fired ELSE <<>>

\* What the context-side counterpart of logical worker id has sent.
WorkerSentBy(id) ==
    LET c == pooledWorkers[id].nativeWorker
    IN IF id \in DOMAIN workerPooledWorkers[c]
       THEN workerPooledWorkers[c][id].sent ELSE <<>>

\* The job messages of a queue that carry logical id `id`, as events.
RECURSIVE JobsFor(_, _)
JobsFor(queue, id) ==
    IF queue = <<>> THEN <<>>
    ELSE LET m == Head(queue)
         IN (IF m.pooledWorkerId = id
             THEN <<[type |-> m.type, data |-> m.data]>> ELSE <<>>)
            \o JobsFor(Tail(queue), id)

Occurrences(seq, data) ==
    Cardinality({i \in 1 .. Len(seq) : seq[i].data = data})

\* The context-side handles, as <<context, id>> pairs.
WorkerHandles ==
    {p \in (DOMAIN workerPooledWorkers) \X (0 .. MaxAlloc) :
        p[2] \in DOMAIN workerPooledWorkers[p[1]]}

\* C5: a handle has fired on it only messages that carry its own logical
\* id, on both sides, and every message a handle sent is either still in
\* flight or was fired exactly once on its counterpart.
C5_Demultiplexed ==
    /\ \A id \in DOMAIN pooledWorkers :
          /\ \A i \in 1 .. Len(pooledWorkers[id].fired) :
                pooledWorkers[id].fired[i].data.id = id
          /\ \A i \in 1 .. Len(pooledWorkers[id].sent) :
                LET data == pooledWorkers[id].sent[i].data
                    c == pooledWorkers[id].nativeWorker
                IN Occurrences(WorkerFired(id), data)
                     + Occurrences(JobsFor(inbox[c], id), data) = 1
    /\ \A p \in WorkerHandles :
          LET handle == workerPooledWorkers[p[1]][p[2]]
          IN /\ \A i \in 1 .. Len(handle.fired) :
                   handle.fired[i].data.id = p[2]
             /\ \A i \in 1 .. Len(handle.sent) :
                   /\ p[2] \in DOMAIN pooledWorkers
                   /\ Occurrences(pooledWorkers[p[2]].fired, handle.sent[i].data)
                        + Occurrences(JobsFor(outbox[p[1]], p[2]),
                                      handle.sent[i].data) = 1

\* Two handles share a real context and each had a message fired on it, on
\* the context side and on the main side.
C5_Witness ==
    \E c \in DOMAIN workerPooledWorkers :
        \E id1, id2 \in DOMAIN workerPooledWorkers[c] :
            /\ id1 # id2
            /\ workerPooledWorkers[c][id1].fired # <<>>
            /\ workerPooledWorkers[c][id2].fired # <<>>
            /\ pooledWorkers[id2].fired # <<>>

\* C6: the i-th allocated logical worker is bound to the real context at
\* index i mod N of the pool.
C6_RoundRobin ==
    \A id \in DOMAIN pooledWorkers :
        /\ Length(nativeWorkers) = PoolSize
        /\ pooledWorkers[id].nativeWorker = nativeWorkers[id % PoolSize]

\* Three allocations against a pool of two: the third wraps to index 0.
C6_Witness ==
    /\ Length(pooledWorkers) = 3
    /\ PoolSize = 2
    /\ pooledWorkers[2].nativeWorker = nativeWorkers[0]

\* C7: no real context before the first allocation; from then on exactly
\* N of them, each with one 'message' listener, whatever is allocated.
C7_LazyFixedPool ==
    /\ PoolSize >= 1
    /\ Length(pooledWorkers) = 0 =>
          Length(contexts) = 0 /\ Length(nativeWorkers) = 0
    /\ Length(pooledWorkers) > 0 =>
          /\ Length(contexts) = PoolSize
          /\ Length(nativeWorkers) = PoolSize
          /\ \A i \in DOMAIN nativeWorkers : nativeWorkers[i] = i
          /\ \A c \in DOMAIN contexts : contexts[c].listeners = 1

\* Several allocations were served by the contexts the first one made.
C7_Witness ==
    /\ Length(pooledWorkers) = 3
    /\ Length(contexts) = 2

\* The control message that creates logical worker id is at position i.
IsControlFor(queue, i, id) ==
    /\ queue[i].pooledWorkerId = NoId
    /\ queue[i].type = "createPooledWorker"
    /\ queue[i].data.pooledWorkerId = id

\* C8: a message sent before the context has created the counterpart
\* handle is not lost: while in flight it is behind the control message
\* that creates the handle (or the handle exists by now), no context-side
\* router has thrown, and once out of the queue it was fired on the
\* counterpart.
C8_EarlySendNotLost ==
    /\ uncaught.worker = 0
    /\ \A id \in DOMAIN pooledWorkers :
          LET c == pooledWorkers[id].nativeWorker
              queue == inbox[c]
          IN /\ \A i \in 1 .. Len(queue) :
                   queue[i].pooledWorkerId = id =>
                      \/ id \in DOMAIN workerPooledWorkers[c]
                      \/ \E j \in 1 .. i - 1 : IsControlFor(queue, j, id)
             /\ \A i \in 1 .. Len(pooledWorkers[id].sent) :
                   LET data == pooledWorkers[id].sent[i].data
                   IN data.early =>
                        \/ Occurrences(JobsFor(queue, id), data) = 1
                        \/ Occurrences(WorkerFired(id), data) = 1

\* An early message was fired on the counterpart handle.
C8_Witness ==
    \E id \in DOMAIN pooledWorkers :
        \E i \in 1 .. Len(WorkerFired(id)) : WorkerFired(id)[i].data.early

\* C9: in each direction, what was fired on the counterpart followed by
\* what is still in flight is what the handle sent, in the order sent.
C9_InOrder ==
    \A id \in DOMAIN pooledWorkers :
        LET c == pooledWorkers[id].nativeWorker
        IN /\ WorkerFired(id) \o JobsFor(inbox[c], id)
                = pooledWorkers[id].sent
           /\ NotRaw(pooledWorkers[id].fired) \o NotRaw(JobsFor(outbox[c], id))
                = WorkerSentBy(id)

\* Two messages of one handle were fired in order on the context side and
\* an answer on the main side.
C9_Witness ==
    \E id \in DOMAIN pooledWorkers :
        /\ Len(WorkerFired(id)) = 2
        /\ WorkerFired(id)[1].data.n = 1
        /\ WorkerFired(id)[2].data.n = 2
        /\ Len(pooledWorkers[id].fired) = 1

\* The router of context c, on the main side, takes a job message whose
\* logical id is not in the registry.
MainRouterTakesUnknown ==
    \E c \in DOMAIN outbox :
        /\ outbox[c] # <<>>
        /\ Head(outbox[c]).pooledWorkerId \notin DOMAIN pooledWorkers
        /\ outbox'[c] = Tail(outbox[c])

\* The same inside context c.
WorkerRouterTakesUnknown ==
    \E c \in DOMAIN inbox :
        /\ inbox[c] # <<>>
        /\ Head(inbox[c]).pooledWorkerId # NoId
        /\ Head(inbox[c]).pooledWorkerId \notin DOMAIN workerPooledWorkers[c]
        /\ inbox'[c] = Tail(inbox[c])

\* C10: a router that receives a job message with an unknown logical id
\* does nothing: no handle has anything fired on it, the registries are
\* unchanged and no exception is raised.
C10_UnknownIdIsSilent ==
    [][(MainRouterTakesUnknown \/ WorkerRouterTakesUnknown) =>
          /\ pooledWorkers' = pooledWorkers
          /\ workerPooledWorkers' = workerPooledWorkers
          /\ uncaught' = uncaught]_poolVars

\* The step is the 'message' listener of context c taking the first
\* message of its queue.
Handles(c) ==
    /\ inbox[c] # <<>>
    /\ inbox' = [inbox EXCEPT ![c] = Tail(@)]

\* C37: inside a context, a message that carries a logical id, 0 included,
\* is fired on the handle of that id, whatever its type, and creates no
\* logical worker: the registry has the same ids, no job body is run, and
\* only the handle of the id has changed. A message without a logical id
\* whose type is not 'createPooledWorker' changes nothing.
C37_RoutedByIdOnly ==
    [][\A c \in DOMAIN inbox :
          Handles(c) =>
             LET message == Head(inbox[c])
                 id == message.pooledWorkerId
                 registry == workerPooledWorkers[c]
             IN /\ id # NoId =>
                      /\ DOMAIN workerPooledWorkers' = DOMAIN workerPooledWorkers
                      /\ \A d \in DOMAIN workerPooledWorkers \ {c} :
                            workerPooledWorkers'[d] = workerPooledWorkers[d]
                      /\ DOMAIN workerPooledWorkers'[c] = DOMAIN registry
                      /\ \A k \in DOMAIN registry :
                            workerPooledWorkers'[c][k] =
                               IF k = id
                               THEN Fire(registry[k], message.type, message.data)
                               ELSE registry[k]
                      /\ outbox' = outbox
                /\ id = NoId /\ message.type # "createPooledWorker" =>
                      /\ workerPooledWorkers' = workerPooledWorkers
                      /\ outbox' = outbox
                      /\ uncaught' = uncaught]_poolVars

\* A context has fired on its handle 0 a message of type
\* 'createPooledWorker' that carried the id 0, and has the one logical
\* worker it had.
C37_Witness ==
    \E c \in DOMAIN workerPooledWorkers :
        /\ DOMAIN workerPooledWorkers[c] = {0}
        /\ workerPooledWorkers[c][0].bodyCalls = 1
        /\ \E i \in 1 .. Len(workerPooledWorkers[c][0].fired) :
              workerPooledWorkers[c][0].fired[i].type = "createPooledWorker"
        /\ inbox[c] = <<>>

(***************************************************************************)
(* Properties of the render loop of the Map.                               *)
(***************************************************************************)
\* _sourcesDirty, _styleDirty or repaint.
Dirty == render.sourcesDirty \/ render.styleDirty \/ render.repaint

\* C38: whatever _update, _render, webglcontextlost and
\* webglcontextrestored a Map with a style has gone through, at most one
\* render frame is pending and, when the map is dirty, one is.
C38_DirtyMapHasFrame ==
    render.style =>
        /\ Cardinality(render.pending) <= 1
        /\ Dirty => render.pending # {}

\* The control messages that create logical worker id: those in flight to
\* context c, and the one context c has processed.
PendingControls(c, id) ==
    Cardinality({i \in 1 .. Len(inbox[c]) : IsControlFor(inbox[c], i, id)})

ControlsFor(c, id) ==
    PendingControls(c, id)
      + (IF id \in DOMAIN workerPooledWorkers[c] THEN 1 ELSE 0)

RECURSIVE SumControls(_, _)
SumControls(cs, id) ==
    IF cs = {} THEN 0
    ELSE LET c == CHOOSE x \in cs : TRUE
         IN ControlsFor(c, id) + SumControls(cs \ {c}, id)

\* The registry holds the ids 0 .. n-1, and each was allocated once: one
\* control message carries it, sent to the context its handle is bound to.
IdsDense ==
    /\ DOMAIN pooledWorkers = 0 .. Length(pooledWorkers) - 1
    /\ \A id \in 0 .. MaxAlloc :
          SumControls(DOMAIN inbox, id)
             = IF id \in DOMAIN pooledWorkers THEN 1 ELSE 0
    /\ \A id \in DOMAIN pooledWorkers :
          ControlsFor(pooledWorkers[id].nativeWorker, id) = 1

\* A step removes no id and leaves every id with the handle it had: the
\* same context, the same options, and what was fired and sent only grows.
IdsKept ==
    /\ Length(pooledWorkers') \in {Length(pooledWorkers), Length(pooledWorkers) + 1}
    /\ \A id \in DOMAIN pooledWorkers :
          /\ id \in DOMAIN pooledWorkers'
          /\ pooledWorkers'[id].nativeWorker = pooledWorkers[id].nativeWorker
          /\ pooledWorkers'[id].options = pooledWorkers[id].options
          /\ Len(pooledWorkers'[id].fired) >= Len(pooledWorkers[id].fired)
          /\ Len(pooledWorkers'[id].sent) >= Len(pooledWorkers[id].sent)

\* C11: logical ids are assigned 0, 1, 2, ... in allocation order: after n
\* allocations the main registry holds exactly the ids 0 .. n-1, each
\* allocated once, and no step reuses, reassigns or removes an id.
C11_IdsGrowInOrder == [](IdsDense) /\ [][IdsKept]_poolVars

\* Three logical workers were allocated, two of them in one context, and
\* messages have gone both ways since.
C11_Witness ==
    /\ Length(pooledWorkers) = 3
    /\ pooledWorkers[0].nativeWorker = pooledWorkers[2].nativeWorker
    /\ pooledWorkers[0].fired # <<>>
    /\ WorkerFired(2) # <<>>

\* Context c takes the message at the head of its queue.
WorkerTakes(c) ==
    /\ c \in DOMAIN inbox
    /\ inbox[c] # <<>>
    /\ inbox'[c] = Tail(inbox[c])

\* The registry of context c, empty before the context exists.
RegistryOf(registries, c) ==
    IF c \in DOMAIN registries THEN registries[c] ELSE EmptyArray

\* Context c takes a control message of type 'createPooledWorker': its
\* registry gains one handle, under the id carried, and the job body was
\* called once on that handle with the options carried.
CreatesOneHandle(c) ==
    LET message == Head(inbox[c])
        id == message.data.pooledWorkerId
        before == workerPooledWorkers[c]
        after == workerPooledWorkers'[c]
    IN IsControlFor(inbox[c], 1, id) =>
          /\ DOMAIN after = DOMAIN before \cup {id}
          /\ after[id].bodyCalls = 1
          /\ after[id].options = message.data.options
          /\ after[id].fired = <<>>
          /\ \A other \in DOMAIN before \ {id} : after[other] = before[other]

\* Context c takes a job message whose id its registry holds: the message
\* is fired on that handle and on no other.
FiresOnHandle(c) ==
    LET message == Head(inbox[c])
        id == message.pooledWorkerId
        before == workerPooledWorkers[c]
        after == workerPooledWorkers'[c]
    IN id # NoId /\ id \in DOMAIN before =>
          /\ DOMAIN after = DOMAIN before
          /\ after[id] = Fire(before[id], message.type, message.data)
          /\ \A other \in DOMAIN before \ {id} : after[other] = before[other]

\* A registry gains a handle only when its context takes the control
\* message that carries the id.
GainsOnlyByControl ==
    \A c \in DOMAIN workerPooledWorkers' :
        \A id \in DOMAIN workerPooledWorkers'[c] :
            id \notin DOMAIN RegistryOf(workerPooledWorkers, c) =>
                WorkerTakes(c) /\ IsControlFor(inbox[c], 1, id)

\* Every handle of a context has had the job body called on it once, with
\* the options the application gave for its id.
BodyCalledOnce ==
    \A p \in WorkerHandles :
        /\ workerPooledWorkers[p[1]][p[2]].bodyCalls = 1
        /\ p[2] \in DOMAIN pooledWorkers
        /\ workerPooledWorkers[p[1]][p[2]].options = pooledWorkers[p[2]].options

\* C12: inside a real context a control message of type
\* 'createPooledWorker' creates exactly one local handle under the id it
\* carries and calls the job body once with that handle as receiver and
\* the user options as argument; a registry holds a handle for an id only
\* if its context has processed the control message for that id, and later
\* job messages with that id are fired on that handle.
C12_ControlCreatesHandle ==
    /\ [](BodyCalledOnce)
    /\ [][/\ GainsOnlyByControl
          /\ \A c \in DOMAIN inbox :
                WorkerTakes(c) => CreatesOneHandle(c) /\ FiresOnHandle(c)]_poolVars

\* A context holds two handles, each created by its control message, and a
\* job message sent after the creation was fired on the second.
C12_Witness ==
    \E c \in DOMAIN workerPooledWorkers :
        \E id1, id2 \in DOMAIN workerPooledWorkers[c] :
            /\ id1 < id2
            /\ workerPooledWorkers[c][id2].bodyCalls = 1
            /\ \E i \in 1 .. Len(workerPooledWorkers[c][id2].fired) :
                  ~workerPooledWorkers[c][id2].fired[i].data.early

(***************************************************************************)
(* Camera: properties. The trace holds what the last step called and fired. *)
(***************************************************************************)
Steps == 1 .. Len(trace)

\* The last step was a call by the application that returned.
Returned ==
    /\ trace # <<>>
    /\ trace[1].kind = "call"
    /\ trace[Len(trace)].kind = "return"
    /\ trace[Len(trace)].call = 1

\* The last step was a frame callback of a timer, and it returned.
FrameReturned ==
    /\ trace # <<>>
    /\ trace[1].kind = "tick"
    /\ trace[Len(trace)].kind = "tickEnd"
    /\ trace[Len(trace)].sid = trace[1].sid

EndEvents == {"zoomend", "pitchend", "moveend"}

Fired(i, type, sid) ==
    /\ trace[i].kind = "event"
    /\ trace[i].e = type
    /\ trace[i].sid = sid

\* C1: at most one session has a live frame timer at any time, whatever
\* the application and its listeners have called.
C1_OneLiveTimer == Cardinality(Live(World)) <= 1

\* Entry i of the trace is a call of easeTo made while an earlier easeTo
\* session is in progress: the Camera holds its abort handle and its finish
\* function, and its timer is live.
EaseToDuringEaseTo(i) ==
    /\ trace[i].kind = "call"
    /\ trace[i].e = "easeTo"
    /\ trace[i].abortFn # Undefined
    /\ trace[i].abortFn = trace[i].finishFn
    /\ trace[i].abortFn \in trace[i].live
    /\ sessions[trace[i].abortFn].kind = "easeTo"

\* Where the call at entry i began its own session, after stop() returned.
BeginOf(i) == {b \in Steps : trace[b].kind = "begin" /\ trace[b].call = i}

\* Between entries i and b the end events of session sid were fired:
\* zoomend if the Camera was zooming at i, then pitchend if it was pitching,
\* then moveend.
EndEventsBetween(i, b, sid) ==
    \E m \in (i + 1) .. (b - 1) :
        /\ Fired(m, "moveend", sid)
        /\ \E p \in i .. (m - 1) :
              /\ trace[i].pitching => p > i /\ Fired(p, "pitchend", sid)
              /\ trace[i].zooming =>
                    \E z \in (i + 1) .. (m - 1) :
                        /\ Fired(z, "zoomend", sid)
                        /\ trace[i].pitching => z < p

Begun == {trace[b].sid : b \in {c \in Steps : trace[c].kind = "begin"}}

\* C3: when the frame callback of session A returns, having fired an event
\* whose listener made one call, of easeTo or flyTo, that started the timer
\* of a session B, then B is the active session (its abort handle and its
\* finish function are installed and it has not been finished) and the
\* timer of A runs no further frame.
C3_StartedInFrameStaysActive ==
    FrameReturned /\ Cardinality({c \in Steps : trace[c].kind = "call"}) = 1 =>
        \A B \in Begun :
            sessions[B].duration # 0 =>
                /\ camera.abortFn = B
                /\ camera.finishFn = B
                /\ sessions[B].finished = 0
                /\ \A e \in Steps : ~(trace[e].kind = "event"
                                       /\ trace[e].e \in EndEvents
                                       /\ trace[e].sid = B)
                /\ trace[1].sid \notin Live(World)

\* C4: when a call of stop, jumpTo, easeTo or flyTo by the application
\* returns, every session whose frame timer was live when it was made has
\* been finished and has no live frame timer.
C4_CallCancelsLiveSessions ==
    Returned =>
        \A s \in trace[1].live :
            /\ sessions[s].timer # "live"
            /\ sessions[s].finished > 0

\* The trace t is that of a call of `op` by the application that returned.
CallReturned(t, op) ==
    /\ t # <<>>
    /\ t[1].kind = "call"
    /\ t[1].e = op
    /\ t[Len(t)].kind = "return"
    /\ t[Len(t)].call = 1

\* No listener made a call of its own.
Quiet(t) == Cardinality({i \in 1 .. Len(t) : t[i].kind = "call"}) = 1

\* The names of the events of session sid in the trace t, in order; the
\* events of jumpTo carry sid 0.
EventsOf(t, sid) ==
    LET own == SelectSeq(t, LAMBDA m : m.kind = "event" /\ m.sid = sid)
    IN [i \in 1 .. Len(own) |-> own[i].e]

JumpEvents(zoomChanged, bearingChanged, pitchChanged) ==
    <<"movestart", "move">>
    \o (IF zoomChanged THEN <<"zoomstart", "zoom", "zoomend">> ELSE <<>>)
    \o (IF bearingChanged THEN <<"rotate">> ELSE <<>>)
    \o (IF pitchChanged THEN <<"pitchstart", "pitch", "pitchend">> ELSE <<>>)
    \o <<"moveend">>

\* C13: when a call of jumpTo returns (no listener having made a call),
\* every property present in its options has the value given, and the
\* events of the call were, in this order: movestart, move, then zoomstart,
\* zoom, zoomend if and only if the zoom has changed, rotate if and only if
\* the bearing has changed, pitchstart, pitch, pitchend if and only if the
\* pitch has changed, and moveend.
C13_JumpToAppliesAndFires ==
    [][CallReturned(trace', "jumpTo") /\ Quiet(trace') =>
          LET options == trace'[1].options
          IN /\ "zoom" \in options.has => transform'.zoom = options.zoom
             /\ "bearing" \in options.has => transform'.bearing = options.bearing
             /\ "pitch" \in options.has => transform'.pitch = options.pitch
             /\ "center" \in options.has => transform'.center = options.center
             /\ EventsOf(trace', 0)
                   = JumpEvents(transform'.zoom # transform.zoom,
                                transform'.bearing # transform.bearing,
                                transform'.pitch # transform.pitch)]_cameraVars

\* The events one easeTo session fires at its start, in one frame and at
\* its completion, given what it animates.
StartEvents(noMoveStart, zooming, pitching) ==
    (IF noMoveStart THEN <<>> ELSE <<"movestart">>)
    \o (IF zooming THEN <<"zoomstart">> ELSE <<>>)
    \o (IF pitching THEN <<"pitchstart">> ELSE <<>>)

FrameEvents(zooming, rotating, pitching) ==
    <<"move">>
    \o (IF zooming THEN <<"zoom">> ELSE <<>>)
    \o (IF rotating THEN <<"rotate">> ELSE <<>>)
    \o (IF pitching THEN <<"pitch">> ELSE <<>>)

CompletionEvents(zooming, pitching) ==
    (IF zooming THEN <<"zoomend">> ELSE <<>>)
    \o (IF pitching THEN <<"pitchend">> ELSE <<>>)
    \o <<"moveend">>

RECURSIVE Repeated(_, _)
Repeated(seq, n) == IF n = 0 THEN <<>> ELSE seq \o Repeated(seq, n - 1)

\* Where the trace t begins session s, and the frames of s it runs.
BeginsOf(t, s) ==
    {b \in 1 .. Len(t) : t[b].kind = "begin" /\ t[b].sid = s}

FramesOf(t, s) ==
    {f \in 1 .. Len(t) : t[f].kind = "frame" /\ t[f].sid = s}

\* C14: the events of an easeTo session in one step are, in this order:
\* if the step starts it, movestart (unless noMoveStart), zoomstart if and
\* only if it animates the zoom and pitchstart if and only if it animates
\* the pitch; for every frame the step runs, move and then zoom, rotate,
\* pitch for exactly the properties it animates; and, if the step completes
\* it, zoomend and pitchend under the same conditions and then moveend,
\* once, with no event of the session after it.
C14_SessionEvents ==
    [][\A s \in 1 .. Len(sessions') :
          sessions'[s].kind = "easeTo" /\ ~threw' =>
            LET old == s <= Len(sessions)
                b == CHOOSE x \in BeginsOf(trace', s) : TRUE
                zooming == IF old THEN sessions[s].zoom # sessions[s].startZoom
                           ELSE trace'[b].zooming
                rotating == IF old
                            THEN sessions[s].bearing # sessions[s].startBearing
                            ELSE trace'[b].rotating
                pitching == IF old THEN sessions[s].pitch # sessions[s].startPitch
                            ELSE trace'[b].pitching
                start == IF old THEN <<>>
                         ELSE StartEvents(trace'[trace'[b].call].options.noMoveStart,
                                          zooming, pitching)
                frames == Repeated(FrameEvents(zooming, rotating, pitching),
                                   Cardinality(FramesOf(trace', s)))
            IN EventsOf(trace', s)
                 \in {start \o frames,
                      start \o frames \o CompletionEvents(zooming, pitching)}]_cameraVars

\* The last step was a call of the Camera, or a listener made one in it.
Called == \E i \in Steps : trace[i].kind = "call"

\* The last step fired the moveend of session s.
Ended(s) == \E i \in Steps : Fired(i, "moveend", s)

\* Session s was started and has not come to its end: its timer is live or
\* the timeout of its delayed end events is set.
Unfinished(s) == s \in Live(World) \/ s \in timeouts

\* isEasing() and isMoving() are both false.
Idle == camera.abortFn = Undefined /\ ~camera.moving

\* C15: under a fair frame scheduler, from every state in which a session
\* is unfinished, either something calls the Camera later or the moveend of
\* the session is fired and the Camera becomes idle, isEasing() and
\* isMoving() both false.
C15_SessionsFinish ==
    \A s \in 1 .. MaxSessions :
        /\ Unfinished(s) ~> (Ended(s) \/ Called)
        /\ Unfinished(s) ~> (Idle \/ Called)

\* The end events of session s in the trace t.
EndEventsOf(t, s) ==
    {i \in 1 .. Len(t) : t[i].kind = "event" /\ t[i].e \in EndEvents /\ t[i].sid = s}

\* Session s is an easeTo session started with delayEndEvents > 0.
Delayed(s) ==
    /\ s <= Len(sessions)
    /\ sessions[s].kind = "easeTo"
    /\ sessions[s].delayEndEvents > 0

\* C16: for an easeTo session started with delayEndEvents > 0, the step
\* that completes the animation fires none of its end events and sets the
\* timeout; isMoving() is true for as long as the timeout is set; and its
\* end events are fired only by the timeout, with moveend once.
C16_EndEventsDelayed ==
    /\ [](\A s \in timeouts : camera.moving)
    /\ [][\A s \in 1 .. Len(sessions') :
             /\ s \in timeouts' \ timeouts => EndEventsOf(trace', s) = {}
             /\ Delayed(s) /\ EndEventsOf(trace', s) # {} =>
                   /\ s \in timeouts
                   /\ ran' = [kind |-> "timeout", sid |-> s, n |-> 0]
                   /\ Cardinality({i \in EndEventsOf(trace', s) :
                                      trace'[i].e = "moveend"}) = 1]_cameraVars

\* The trace t is that of the frame callback of session s called with
\* t = 1.
FinalFrame(t, s) ==
    /\ t # <<>>
    /\ t[1].kind = "tick"
    /\ t[1].sid = s
    /\ t[1].call = 1

\* C17: the frame callback of a session called with t = 1 applies the
\* update of the frame, then finalizes the session, and returns: afterwards
\* isEasing() is false and, when the session was started without
\* delayEndEvents, its end events have been fired, after the update, and
\* moving, zooming, rotating and pitching are all false.
C17_FinalFrameFinalizes ==
    [][\A s \in 1 .. Len(sessions) :
          FinalFrame(trace', s) =>
            /\ trace'[Len(trace')].kind = "tickEnd"
            /\ camera'.abortFn = Undefined
            /\ \E f \in FramesOf(trace', s) :
                  \A e \in EndEventsOf(trace', s) : f < e
            /\ sessions[s].delayEndEvents = 0 =>
                  /\ \E e \in EndEventsOf(trace', s) : trace'[e].e = "moveend"
                  /\ ~camera'.moving
                  /\ ~camera'.zooming
                  /\ ~camera'.rotating
                  /\ ~camera'.pitching]_cameraVars

\* A call that takes w to w2 has no effect: no state of the Camera is
\* changed, no event is fired and no exception is raised.
NoEffect(w, w2) ==
    /\ w2.tr = w.tr
    /\ w2.cam = w.cam
    /\ w2.sessions = w.sessions
    /\ w2.timeouts = w.timeouts
    /\ w2.listeners = w.listeners
    /\ w2.trace = w.trace
    /\ w2.warnings = w.warnings
    /\ ~w2.exc

\* C18, as the specification states it: stop() has no effect on a Camera
\* that is not easing, and none on a Camera on which stop() has just been
\* called.
C18_StopIdempotent ==
    camera.abortFn = Undefined \/ CallReturned(trace, "stop") =>
        NoEffect(World, stop(World))

\* C18, amended: the same, for a second stop() after a first one during
\* which no listener has called the Camera.
C18_StopIdempotentQuiet ==
    camera.abortFn = Undefined \/ (CallReturned(trace, "stop") /\ Quiet(trace)) =>
        NoEffect(World, stop(World))

\* stop() has just ended a session that was zooming, and fired its end
\* events, with no listener calling the Camera.
C18_Witness ==
    /\ CallReturned(trace, "stop")
    /\ Quiet(trace)
    /\ \E i, j \in Steps :
          /\ i < j
          /\ trace[i].kind = "event" /\ trace[i].e = "zoomend"
          /\ trace[j].kind = "event" /\ trace[j].e = "moveend"

\* The target of options is where the map is: its center is the current
\* center and its zoom the current zoom (a key that is absent stands for
\* the current value).
Here(options) ==
    /\ "zoom" \in options.has => options.zoom = transform.zoom
    /\ "center" \in options.has =>
          _normalizeCenter(World, options.center) = transform.center

\* The step is the call flyTo(options) by the application.
Flown(t, options) ==
    /\ t # <<>>
    /\ t[1].kind = "call"
    /\ t[1].e = "flyTo"
    /\ t[1].options = options

\* The trace of a call of flyTo, read as one of easeTo.
AsEaseTo(t) ==
    [i \in 1 .. Len(t) |->
        IF t[i].kind \in {"call", "return"} /\ t[i].e = "flyTo"
        THEN [t[i] EXCEPT !.e = "easeTo"] ELSE t[i]]

\* The step has done what the call took the Camera to in w.
Did(w) ==
    /\ transform' = w.tr
    /\ camera' = w.cam
    /\ sessions' = [s \in 1 .. Len(w.sessions) |-> Collected(w, s)]
    /\ timeouts' = w.timeouts
    /\ listeners' = w.listeners
    /\ AsEaseTo(trace') = w.trace
    /\ threw' = (threw \/ w.exc)
    /\ warnings' = w.warnings

\* C19: flyTo called with a target center equal to the current center and
\* a target zoom equal to the current zoom does exactly what easeTo called
\* with the same options does: the session has the same duration (500 ms
\* by default), the same events are fired in the same order, the Camera is
\* left in the same state, and no exception is raised.
C19_FlyToHereIsEaseTo ==
    [][\A o \in FlyOptions :
          Flown(trace', o) /\ Here(o) =>
            /\ Did(invoke(World, Call("easeTo", o)))
            /\ threw' = threw]_cameraVars

\* C20: for every target bearing and every start bearing from -360 to 360,
\* _normalizeBearing returns a value that is the target bearing modulo 360
\* and lies no further than 180 from the start bearing; for the target 10
\* and the start 350 it returns 370.
C20_NormalizedBearingIsNear ==
    bearings.returned =>
        /\ (bearings.value - bearings.bearing) % Revolution = 0
        /\ Abs(bearings.value - bearings.currentBearing) * 2 <= Revolution
        /\ bearings.bearing = 10 /\ bearings.currentBearing = 350 =>
              bearings.value = 370

\* The call of the example has returned, with a value outside (-180, 180].
C20_Witness ==
    /\ bearings.returned
    /\ bearings.bearing = 10
    /\ bearings.currentBearing = 350
    /\ bearings.value = 370

(***************************************************************************)
(* Properties of the Map.                                                  *)
(***************************************************************************)
\* The step is a call op(options) by the page, with a target center.
CalledWithCenter(t, op) ==
    /\ t # <<>>
    /\ t[1].kind = "call"
    /\ t[1].e = op
    /\ "center" \in t[1].options.has

\* A longitude range is in force: max bounds were set and have not been
\* cleared since.
InForce == transform.lngRange.bounds # <<>>

\* The target longitude, moved by a revolution when that is the shorter
\* way from the current longitude.
Nearest(lng) ==
    LET delta == lng - transform.center
    IN IF ~transform.renderWorldCopies \/ InForce THEN lng
       ELSE IF delta > 180 THEN lng - 360
       ELSE IF delta < -180 THEN lng + 360
       ELSE lng

\* C21: the target longitude of easeTo and flyTo is shifted by -360 exactly
\* when it is more than 180 east of the current longitude and by +360
\* exactly when it is more than 180 west of it, provided renderWorldCopies
\* is true and no longitude range is in force (max bounds never set, or
\* cleared with setMaxBounds(null)); otherwise it is left as given.
C21_TargetLongitudeNearest ==
    [][\A op \in {"easeTo", "flyTo"} :
          CalledWithCenter(trace', op) =>
            \A i \in 1 .. Len(trace') :
                trace'[i].kind = "begin" =>
                    sessions'[trace'[i].sid].center
                        = Nearest(trace'[1].options.center)]_cameraVars

\* The step is the call fitBounds(bounds, options) by the page.
Fitted(t, options) ==
    /\ t # <<>>
    /\ t[1].kind = "call"
    /\ t[1].e = "fitBounds"
    /\ t[1].options = options

\* The fit scale of one axis is negative: less than nothing is left of the
\* extent of the viewport after the padding and the offset.
NegativeScale(extent, before, after, offset) ==
    extent - 2 * Min(before, after) - 2 * Abs(offset + before - after) < 0

Unfit(options) ==
    \/ NegativeScale(transform.width, options.padding.left,
                     options.padding.right, options.offset[1])
    \/ NegativeScale(transform.height, options.padding.top,
                     options.padding.bottom, options.offset[2])

\* No message is on the console twice.
WarnedOnce ==
    \A i, j \in 1 .. Len(warnings.console) :
        warnings.console[i] = warnings.console[j] => i = j

\* C22: fitBounds with a padding object whose keys are not exactly top,
\* bottom, left and right, or with bounds, padding and offset that give a
\* negative fit scale, returns without throwing, fires no event, leaves
\* center, zoom, bearing and pitch as they are and the running session
\* untouched; and every distinct warning is written at most once.
C22_FitBoundsAborts ==
    /\ [](WarnedOnce)
    /\ [][\A o \in FitOptions :
            Fitted(trace', o) /\ (o.keys # PaddingKeys \/ Unfit(o)) =>
              /\ threw' = threw
              /\ CallReturned(trace', "fitBounds")
              /\ Len(trace') = 2
              /\ transform' = transform
              /\ camera' = camera
              /\ sessions' = sessions
              /\ timeouts' = timeouts]_cameraVars

\* fitBounds has returned with neither event nor session, while a session
\* is running and after both warnings have been written.
C22_Witness ==
    /\ CallReturned(trace, "fitBounds")
    /\ Len(trace) = 2
    /\ Live(World) # {}
    /\ warnings.console = <<PaddingMessage, FitMessage>>

\* The step is the call op(zoom) by the page, zoom a number.
CalledWithZoom(t, op) ==
    /\ t # <<>>
    /\ t[1].kind = "call"
    /\ t[1].e = op
    /\ "zoom" \in t[1].options.has

ZoomInRange ==
    /\ transform.minZoom <= transform.zoom
    /\ transform.zoom <= transform.maxZoom

\* C24: after every call (jumpTo, setZoom, setMinZoom, setMaxZoom) and
\* every frame of easeTo and flyTo, getMinZoom() <= getZoom() <=
\* getMaxZoom(); a setMinZoom above the current zoom raises the zoom to the
\* new minimum and a setMaxZoom below it lowers it to the new maximum.
C24_ZoomWithinRange ==
    /\ [](ZoomInRange)
    /\ [][/\ CalledWithZoom(trace', "setMinZoom")
              /\ trace'[1].options.zoom >= MinZoom
              /\ trace'[1].options.zoom <= transform.maxZoom
              /\ trace'[1].options.zoom > transform.zoom
              => /\ transform'.minZoom = trace'[1].options.zoom
                 /\ transform'.zoom = trace'[1].options.zoom
          /\ CalledWithZoom(trace', "setMaxZoom")
              /\ trace'[1].options.zoom >= transform.minZoom
              /\ trace'[1].options.zoom < transform.zoom
              => /\ transform'.maxZoom = trace'[1].options.zoom
                 /\ transform'.zoom = trace'[1].options.zoom]_cameraVars

\* setMinZoom has raised the zoom of a map whose Transform leaves that to
\* the Map, while a session was running.
C24_Witness ==
    /\ CallReturned(trace, "setMinZoom")
    /\ ~transform.strict
    /\ transform.zoom = MidZoom
    /\ transform.minZoom = MidZoom
    /\ \E i \in Steps : trace[i].kind = "event" /\ trace[i].e = "zoomend"
                          /\ trace[i].sid = 0
    /\ \E i \in Steps : trace[i].kind = "event" /\ trace[i].e = "moveend"
                          /\ trace[i].sid > 0

\* The step is a call of op by the page; the bound it asks for is the
\* default when the argument is null.
CalledToSet(t, op) ==
    /\ t # <<>>
    /\ t[1].kind = "call"
    /\ t[1].e = op

Asked(t, default) ==
    IF "zoom" \in t[1].options.has THEN t[1].options.zoom ELSE default

RangeKept == transform.minZoom <= transform.maxZoom

\* The call has thrown and left the zoom and its range as they were.
Refused(op) ==
    /\ ~CallReturned(trace', op)
    /\ threw'
    /\ transform' = transform

\* The call has returned with the bound it was asked for.
MinZoomSet == CallReturned(trace', "setMinZoom")
              /\ transform'.minZoom = Asked(trace', MinZoom)
              /\ transform'.maxZoom = transform.maxZoom

MaxZoomSet == CallReturned(trace', "setMaxZoom")
              /\ transform'.maxZoom = Asked(trace', MaxZoom)
              /\ transform'.minZoom = transform.minZoom

FirstFrame(t, s) ==
    /\ t # <<>>
    /\ t[1].kind = "tick"
    /\ t[1].sid = s
    /\ t[1].call = 0
    /\ t[Len(t)].kind = "tickEnd"

\* The camera is at the targets session c was given.
Arrived(tr, c) ==
    /\ tr.zoom = c.zoom
    /\ (tr.bearing - c.bearing) % Revolution = 0
    /\ tr.pitch = c.pitch

\* C26: a session of easeTo or flyTo that runs to its last frame, with no
\* call made by a listener, shows the start zoom after its frame at t = 0
\* and the zoom, bearing (modulo 360) and pitch of its options after its
\* frame at t = 1, whatever came before it.
C26_SessionArrives ==
    [][\A s \in 1 .. Len(sessions) :
          /\ FirstFrame(trace', s) => transform'.zoom = sessions[s].startZoom
          /\ FinalFrame(trace', s) /\ trace'[Len(trace')].kind = "tickEnd"
                => Arrived(transform', sessions[s])]_cameraVars

\* The camera properties a CameraOptions can name.
CameraProperties == {"center", "zoom", "bearing", "pitch"}

\* C27: jumpTo changes only the camera properties its options name: a
\* property absent from options has after the call the value it had before
\* (no listener making a call of its own during the call).
C27_JumpToKeepsTheRest ==
    [][CallReturned(trace', "jumpTo") /\ Quiet(trace') =>
          \A key \in CameraProperties \ trace'[1].options.has :
              transform'[key] = transform[key]]_cameraVars

\* jumpTo has moved the center of a camera that is zoomed, turned and
\* pitched, while a session was running.
C27_Witness ==
    /\ CallReturned(trace, "jumpTo")
    /\ trace[1].options.has = {"center"}
    /\ transform.center = trace[1].options.center
    /\ transform.zoom # 0
    /\ transform.bearing # 0
    /\ transform.pitch # 0
    /\ \E i \in Steps : trace[i].kind = "event" /\ trace[i].sid # 0

\* C30: the finish function of each session is invoked exactly once, on
\* its final frame or when it is aborted, and _finishEase is never entered
\* with no finish function installed (it then throws a TypeError, the only
\* exception of the Camera): no session is finished twice, a session whose
\* timer is over has been finished, and nothing has thrown, whatever the
\* page and its listeners call.
C30_FinishedOnce ==
    /\ ~threw
    /\ \A s \in 1 .. Len(sessions) :
          /\ sessions[s].finished <= 1
          /\ sessions[s].timer # "live" => sessions[s].finished = 1

\* The movestart and moveend events of a step, in the order they were fired.
MoveEvents(t) ==
    SelectSeq(t, LAMBDA x : x.kind = "event" /\ x.e \in {"movestart", "moveend"})

\* The events alternate, from a moveend if a movestart is open and from a
\* movestart if none is.
Alternate(open, events) ==
    \A i \in 1 .. Len(events) :
        (events[i].e = "movestart") <=> (open = (i % 2 = 0))

\* C32: without noMoveStart, movestart and moveend alternate in the events
\* of one Camera, beginning with movestart. _prepareEase sets moving with
\* every movestart and _easeToEnd clears it with every moveend, so that
\* before a step moving tells whether a movestart is open as long as the
\* events have alternated.
C32_MoveEventsAlternate ==
    [][Alternate(camera.moving, MoveEvents(trace'))]_cameraVars

\* C31: the timeout an easeTo session has set for its delayed end events
\* finalizes that session only: when it runs while a session begun later
\* is under way, it fires no zoomend, pitchend or moveend and leaves the
\* moving, zooming, rotating and pitching of the later session as they are.
C31_TimeoutEndsItsOwnSession ==
    [][\A s \in 1 .. Len(sessions) :
          TimeoutRuns(s) /\ (\E later \in Live(World) : later > s) =>
            /\ EndEventsOf(trace', s) = {}
            /\ camera'.moving = camera.moving
            /\ camera'.zooming = camera.zooming
            /\ camera'.rotating = camera.rotating
            /\ camera'.pitching = camera.pitching]_cameraVars

\* Camera.isEasing()
isEasing == camera.abortFn # Undefined

\* Camera.isMoving()
isMoving == camera.moving

\* C33: whenever jumpTo, easeTo, flyTo, stop, a frame or a timeout has
\* returned, isEasing() implies isMoving(): the Camera is moving for as long
\* as it holds the abort handle of a session.
C33_EasingIsMoving == isEasing => isMoving

\* The options make easeTo run its only frame inside the call: animate is
\* false or the duration is 0, and the end events are not delayed.
Synchronous(options) ==
    /\ \/ ~options.animate
       \/ "duration" \in options.has /\ options.duration = 0
    /\ options.delayEndEvents = 0

\* C34: a call of easeTo with animate false or duration 0 and without
\* delayEndEvents returns after it has fired the start events, the events of
\* its frame and the end events of its session, in this order; when no
\* listener has made a call of its own the camera is then at the target and
\* isEasing() and isMoving() are false.
C34_EaseToAtOnce ==
    [][trace' # <<>> /\ trace'[1].kind = "call" /\ trace'[1].e = "easeTo"
          /\ Synchronous(trace'[1].options) =>
          LET s == Len(sessions) + 1
              events == EventsOf(trace', s)
          IN /\ CallReturned(trace', "easeTo")
             /\ events # <<>>
             /\ ~trace'[1].options.noMoveStart => events[1] = "movestart"
             /\ \E i \in 1 .. Len(events) : events[i] = "move"
             /\ events[Len(events)] = "moveend"
             /\ Quiet(trace') =>
                   /\ Arrived([transform' EXCEPT
                          !.zoom = IF "zoom" \in trace'[1].options.has
                                   THEN @ ELSE sessions'[s].zoom,
                          !.bearing = IF "bearing" \in trace'[1].options.has
                                      THEN @ ELSE sessions'[s].bearing,
                          !.pitch = IF "pitch" \in trace'[1].options.has
                                    THEN @ ELSE sessions'[s].pitch],
                              [zoom |-> trace'[1].options.zoom,
                               bearing |-> trace'[1].options.bearing,
                               pitch |-> trace'[1].options.pitch])
                   /\ ~isEasing'
                   /\ ~isMoving']_cameraVars

\* A call of jumpTo has begun whose options have a center that
\* LngLat.convert rejects.
RejectedCenter(t) ==
    /\ t # <<>>
    /\ t[1].kind = "call"
    /\ t[1].e = "jumpTo"
    /\ "center" \in t[1].options.has
    /\ convert(CenterGiven(t[1].options)).threw

\* C36: a call of jumpTo with a center that LngLat.convert rejects throws
\* and leaves the camera as it was: zoom, center, bearing and pitch are
\* those of before the call and no event was fired, whatever else the
\* options contain.
C36_RejectedCenterChangesNothing ==
    [][RejectedCenter(trace') =>
          /\ ~CallReturned(trace', "jumpTo")
          /\ \A key \in CameraProperties : transform'[key] = transform[key]
          /\ \A i \in 1 .. Len(trace') : trace'[i].kind # "event"]_cameraVars

(***************************************************************************)
(* Properties of Evented.                                                  *)
(***************************************************************************)
\* The listeners registered with once and not removed with off.
OneTime == {l \in 1 .. Len(evented.made) :
              evented.made[l].once /\ ~evented.made[l].off}

\* C28: a listener registered with once(type, fn) is called by the first
\* fire(type) after its registration and by no later one: it is never
\* called twice, also when a listener calls fire(type) while the first
\* fire is running, and it has been called once when a fire(type) by the
\* page after its registration has returned.
C28_OnceIsOnce ==
    /\ [](\A l \in OneTime : evented.made[l].calls <= 1)
    /\ [][\A type \in EventTypeNames :
             evented'.fired = Append(evented.fired, type) =>
               \A l \in OneTime :
                   evented.made[l].type = type => evented'.made[l].calls = 1
         ]_eventedVars

\* The step is a call of fire(type) by the page.
Fires(type) ==
    /\ Len(evented'.fired) = Len(evented.fired) + 1
    /\ evented'.fired[Len(evented'.fired)] = type

\* C35: fire(type) calls exactly the listeners that were registered for
\* type when it began, the persistent ones in the order they were
\* registered and then the one-time ones, and returns, even when the
\* listeners call on, off or once for the type while it runs (on an
\* Evented without parent).
C35_FireCallsTheRegistered ==
    [][\A type \in EventTypeNames :
          Fires(type) =>
             evented'.called = evented._listeners[type]
                                  \o evented._oneTimeListeners[type]]_eventedVars

(***************************************************************************)
(* Properties of the path of flyTo.                                        *)
(***************************************************************************)
Rises(i) == Below(flight.spans[i], flight.spans[i + 1])

Falls(i) == Below(flight.spans[i + 1], flight.spans[i])

Between == 1 .. Len(flight.spans) - 1

\* The distance is short for the change of zoom:
\* rho^4 * u1^2 <= |w1^2 - w0^2|.
ShortForZoom ==
    LET rho2 == Mult(flight.rho, flight.rho)
        far == Mult(Mult(rho2, rho2), Mult(flight.u1, flight.u1))
        gap == Minus(Mult(flyTo_w1(flight), flyTo_w1(flight)),
                     Mult(flyTo_w0, flyTo_w0))
    IN ~Below(gap, far) \/ ~Below(Minus(Whole(0), gap), far)

\* C29, as stated: the visible span w(s) of a flight whose start zoom
\* differs from its target zoom is monotonic over the path: it does not
\* rise and then fall, or fall and then rise.
C29_SpanMonotonic ==
    flight.flying =>
        ~(\E i, j \in Between : Rises(i) /\ Falls(j))

\* C29, amended: the visible span never falls and then rises; it is
\* monotonic when the flight covers no ground or the distance is short for
\* the change of zoom, and may rise and then fall otherwise.
C29_SpanHasOnePeak ==
    flight.flying =>
        /\ \A i, j \in Between : i < j => ~(Falls(i) /\ Rises(j))
        /\ flight.u1.n = 0 \/ ShortForZoom =>
              ~(\E i, j \in Between : Rises(i) /\ Falls(j))

\* The spans of a whole flight between two zooms that rise and then fall.
C29_Witness ==
    /\ flight.flying
    /\ Len(flight.spans) = Samples + 1
    /\ flight.scale # Whole(1)
    /\ \E i, j \in Between : i < j /\ Rises(i) /\ Falls(j)

(***************************************************************************)
(* Properties of LngLat.                                                   *)
(***************************************************************************)
\* The value is NaN itself, or a latitude that is a number off the globe.
IsNaN(value) == value.t = "NaN"

OffGlobe(value) == value.t = "number" /\ (value.n > 90 \/ value.n < -90)

\* The input of convert is a LngLat, an array of two, or an object.
LngLatLike(input) ==
    \/ input.t \in {"LngLat", "object"}
    \/ input.t = "array" /\ Len(input.items) = 2

\* C23: new LngLat with a NaN longitude or latitude or with a latitude
\* outside [-90, 90], and LngLat.convert of an input that is neither a
\* LngLat, an array of two elements nor an object, throw an Error and give
\* no LngLat.
C23_MalformedLngLatThrows ==
    lngLat.returned =>
        /\ lngLat.op = "new" /\ (\/ IsNaN(lngLat.args[1])
                                 \/ IsNaN(lngLat.args[2])
                                 \/ OffGlobe(lngLat.args[2]))
              => lngLat.threw /\ lngLat.value = <<>>
        /\ lngLat.op = "convert" /\ ~LngLatLike(lngLat.args[1])
              => lngLat.threw /\ lngLat.value = <<>>

\* The constructor has thrown for a latitude of 91.
C23_Witness ==
    /\ lngLat.returned
    /\ lngLat.op = "new"
    /\ lngLat.args = <<Num(0), Num(91)>>
    /\ lngLat.threw
====
